---- MODULE Spec2Model ----
(***************************************************************************)
(* FlowPDF: the run-level substitution engine and the table loop expander  *)
(* of app/services/docx_parser_service.py, and the template designer of    *)
(* app/api/v1/designer.py and app/services/template_designer_service.py.   *)
(*                                                                         *)
(* Text is a sequence of one-character strings.  A run is a record         *)
(* [text, fmt]; a paragraph is a sequence of runs; a cell is a sequence of *)
(* paragraphs; a row is [id, cells] (id is the identity of the w:tr node); *)
(* a table is a sequence of rows.  Offsets are 0-based as in Python.       *)
(***************************************************************************)
EXTENDS Integers, Sequences, FiniteSets, TLC

VARIABLES
    scope,            \* which part of the program the behaviour exercises
    op,               \* the operation that ran last ("init" before any)
    paragraph,        \* the paragraph object handed to _find_and_replace_in_paragraph
    paragraph_before, \* its runs when the last call started
    cell,             \* the cell object handed to _find_and_replace_in_cell
    cell_before,      \* its paragraphs when the last call started
    target_text,      \* argument of the last call
    replacement,      \* argument of the last call
    result,           \* return value of the last call
    source_doc,       \* the document at source_path
    mappings,         \* the mappings handed to apply_mappings_to_document
    template_doc,     \* the document apply_mappings_to_document saved
    render_data,      \* the data handed to expand_table_loops
    expansion_steps,  \* the document expand_table_loops holds: as loaded, then
                      \* after each iteration of its loop; the last one is saved
    templates,        \* table templates: the rows by id
    template_mappings, \* the rows of table template_mappings, ORDER BY created_at
    storage,          \* the files under LOCAL_STORAGE_PATH
    rendered_documents, \* the rows of table rendered_documents
    response,         \* the response of the last request
    uuid_count,       \* the number of mapping ids drawn with uuid.uuid4()
    update_call       \* the update_mapping call in progress: its mapping_id and
                      \* merged data, and the line it has reached; None when
                      \* no call is in progress

callVars == <<paragraph, paragraph_before, cell, cell_before,
              target_text, replacement, result>>
docVars == <<source_doc, mappings, template_doc, render_data, expansion_steps>>

svcVars == <<templates, template_mappings, storage, rendered_documents, response,
             uuid_count>>

vars == <<scope, op, callVars, docVars, svcVars, update_call>>

----------------------------------------------------------------------------
(* Bounds of the model *)

MaxTextLen == 4
MaxRuns == 3
MaxParas == 2
MaxRows == 3
MaxItems == 2

----------------------------------------------------------------------------
(* Python str and list primitives *)

Min(a, b) == IF a < b THEN a ELSE b
Max(a, b) == IF a > b THEN a ELSE b

\* s[:k]
PySliceTo(s, k) ==
    IF k >= 0 THEN SubSeq(s, 1, Min(k, Len(s)))
    ELSE SubSeq(s, 1, Max(Len(s) + k, 0))

\* s[k:]
PySliceFrom(s, k) ==
    IF k >= 0 THEN SubSeq(s, Min(k, Len(s)) + 1, Len(s))
    ELSE SubSeq(s, Max(Len(s) + k, 0) + 1, Len(s))

\* t occurs in s at 0-based offset i
OccursAt(s, t, i) ==
    /\ i >= 0
    /\ i + Len(t) <= Len(s)
    /\ SubSeq(s, i + 1, i + Len(t)) = t

\* t in s
PyIn(t, s) == \E i \in 0..Len(s) : OccursAt(s, t, i)

\* s.index(t), defined when t in s
PyIndexLast(s, t) ==
    CHOOSE i \in 0..Len(s) :
        OccursAt(s, t, i) /\ \A j \in 0..Len(s) : OccursAt(s, t, j) => j <= i

PyIndex(s, t) ==
    CHOOSE i \in 0..Len(s) :
        OccursAt(s, t, i) /\ \A j \in 0..Len(s) : OccursAt(s, t, j) => i <= j

----------------------------------------------------------------------------
(* _find_and_replace_in_paragraph *)

RECURSIVE ConcatTexts(_)
ConcatTexts(runs) ==
    IF runs = <<>> THEN <<>>
    ELSE Head(runs).text \o ConcatTexts(Tail(runs))

\* paragraph.text: the run texts joined in order
ParagraphText(runs) == ConcatTexts(runs)

\* run_positions: (run_start, run_end, idx) for every run, idx 1-based here
RunPositions(runs) ==
    [i \in 1..Len(runs) |->
        [run_start |-> Len(ConcatTexts(SubSeq(runs, 1, i - 1))),
         run_end   |-> Len(ConcatTexts(SubSeq(runs, 1, i))),
         idx       |-> i]]

OverlapsInclusive(pos, start_offset, end_offset) ==
    pos.run_end >= start_offset /\ pos.run_start <= end_offset

\* the test of line 123
Overlaps(pos, start_offset, end_offset) ==
    pos.run_end > start_offset /\ pos.run_start < end_offset

AffectedRuns(runs, start_offset, end_offset) ==
    SelectSeq(RunPositions(runs),
              LAMBDA pos : Overlaps(pos, start_offset, end_offset))

SetText(runs, i, text) == [runs EXCEPT ![i].text = text]

SingleRunTextNoSuffix(prefix, repl, suffix) == prefix \o repl

\* line 136
SingleRunText(prefix, repl, suffix) == prefix \o repl \o suffix

RECURSIVE EmptyRuns(_, _)
EmptyRuns(runs, positions) ==
    IF positions = <<>> THEN runs
    ELSE EmptyRuns(SetText(runs, Head(positions).idx, <<>>), Tail(positions))

RewriteMultiKeepMiddle(runs, affected, prefix, repl, suffix) ==
    LET first == affected[1].idx
        last  == affected[Len(affected)].idx
    IN  SetText(SetText(runs, first, prefix \o repl), last, suffix)

\* lines 138-141: first run, the runs of affected_runs[1:-1], last run
RewriteMulti(runs, affected, prefix, repl, suffix) ==
    LET first  == affected[1].idx
        last   == affected[Len(affected)].idx
        middle == SubSeq(affected, 2, Len(affected) - 1)
        r1     == SetText(runs, first, prefix \o repl)
        r2     == EmptyRuns(r1, middle)
    IN  SetText(r2, last, suffix)

\* line 132
PrefixOfRun(text, start_offset, run_start) == PySliceTo(text, start_offset - run_start)

SuffixOfRunAbsolute(text, end_offset, run_start) == PySliceFrom(text, end_offset)

\* line 133
SuffixOfRun(text, end_offset, run_start) == PySliceFrom(text, end_offset - run_start)

\* lines 129-141, with the match at [start_offset, end_offset)
Rewrite(runs, affected, start_offset, end_offset, repl) ==
    LET first  == affected[1]
        last   == affected[Len(affected)]
        prefix == PrefixOfRun(runs[first.idx].text, start_offset, first.run_start)
        suffix == SuffixOfRun(runs[last.idx].text, end_offset, last.run_start)
    IN  IF first.idx = last.idx
        THEN SetText(runs, first.idx, SingleRunText(prefix, repl, suffix))
        ELSE RewriteMulti(runs, affected, prefix, repl, suffix)

\* lines 104-143, once the offset of the match is known
ReplaceAt(runs, start_offset, target, repl) ==
    LET end_offset == start_offset + Len(target)
        affected   == AffectedRuns(runs, start_offset, end_offset)
    IN  IF runs = <<>> THEN [ok |-> FALSE, runs |-> runs]
        ELSE IF affected = <<>> THEN [ok |-> FALSE, runs |-> runs]
        ELSE [ok |-> TRUE,
              runs |-> Rewrite(runs, affected, start_offset, end_offset, repl)]

\* the function with str.find in place of the guarded str.index: -1 when absent
FindAndReplaceInParagraphUnguarded(runs, target, repl) ==
    LET full_text == ParagraphText(runs)
    IN  ReplaceAt(runs,
                  IF PyIn(target, full_text) THEN PyIndex(full_text, target) ELSE -1,
                  target, repl)

\* _find_and_replace_in_paragraph: [ok |-> the return value, runs |-> the runs after]
FindAndReplaceInParagraph(runs, target, repl) ==
    LET full_text == ParagraphText(runs)
    IN  IF ~PyIn(target, full_text) THEN [ok |-> FALSE, runs |-> runs]
        ELSE ReplaceAt(runs, PyIndex(full_text, target), target, repl)

----------------------------------------------------------------------------
(* _find_and_replace_in_cell *)

\* the loop without the early return: every paragraph of the cell is tried
RECURSIVE FindAndReplaceInCellAllFrom(_, _, _, _)
FindAndReplaceInCellAllFrom(paras, k, target, repl) ==
    IF k > Len(paras) THEN [ok |-> FALSE, paragraphs |-> paras]
    ELSE LET r    == FindAndReplaceInParagraph(paras[k], target, repl)
             rest == FindAndReplaceInCellAllFrom([paras EXCEPT ![k] = r.runs],
                                                 k + 1, target, repl)
         IN  [ok |-> r.ok \/ rest.ok, paragraphs |-> rest.paragraphs]

FindAndReplaceInCellAll(paras, target, repl) ==
    FindAndReplaceInCellAllFrom(paras, 1, target, repl)

\* lines 148-151 from the k-th paragraph on
RECURSIVE FindAndReplaceInCellFrom(_, _, _, _)
FindAndReplaceInCellFrom(paras, k, target, repl) ==
    IF k > Len(paras) THEN [ok |-> FALSE, paragraphs |-> paras]
    ELSE LET r     == FindAndReplaceInParagraph(paras[k], target, repl)
             after == [paras EXCEPT ![k] = r.runs]
         IN  IF r.ok THEN [ok |-> TRUE, paragraphs |-> after]
             ELSE FindAndReplaceInCellFrom(after, k + 1, target, repl)

\* _find_and_replace_in_cell: [ok |-> the return value, paragraphs |-> the cell after]
FindAndReplaceInCell(paras, target, repl) ==
    FindAndReplaceInCellFrom(paras, 1, target, repl)

----------------------------------------------------------------------------
(* Python values: a str is [type |-> "str", val |-> text], an int is         *)
(* [type |-> "int", val |-> n], a dict is [type |-> "dict", val |-> f] with  *)
(* f a function from keys (texts) to values, a list is                       *)
(* [type |-> "list", val |-> seq]; .val of None does not exist, as no        *)
(* operation of int, str or list exists on None                              *)

None == [type |-> "NoneType"]
PyStrValue(text) == [type |-> "str", val |-> text]
PyIntValue(n) == [type |-> "int", val |-> n]
PyDict(f) == [type |-> "dict", val |-> f]
PyList(seq) == [type |-> "list", val |-> seq]

DigitChars == <<"0", "1", "2", "3", "4", "5", "6", "7", "8", "9">>

RECURSIVE DecimalText(_)
DecimalText(n) ==
    IF n < 10 THEN <<DigitChars[n + 1]>>
    ELSE DecimalText(n \div 10) \o <<DigitChars[(n % 10) + 1]>>

\* str(v)
PyStr(v) ==
    CASE v.type = "str" -> v.val
      [] v.type = "int" -> IF v.val < 0 THEN <<"-">> \o DecimalText(0 - v.val)
                           ELSE DecimalText(v.val)
      [] v.type = "NoneType" -> <<"N", "o", "n", "e">>

\* d.get(key, default) on a function d
DictGet(d, key, default) == IF key \in DOMAIN d THEN d[key] ELSE default

\* s.replace(old, new) with only the first occurrence replaced
PyReplaceFirst(s, old, new) ==
    IF old # <<>> /\ PyIn(old, s)
    THEN LET i == PyIndex(s, old)
         IN  SubSeq(s, 1, i) \o new \o SubSeq(s, i + Len(old) + 1, Len(s))
    ELSE s

\* s.replace(old, new): every non-overlapping occurrence, left to right
RECURSIVE PyReplace(_, _, _)
PyReplace(s, old, new) ==
    IF old = <<>>
    THEN IF s = <<>> THEN new
         ELSE new \o <<Head(s)>> \o PyReplace(Tail(s), old, new)
    ELSE IF Len(s) < Len(old) THEN s
    ELSE IF SubSeq(s, 1, Len(old)) = old
         THEN new \o PyReplace(SubSeq(s, Len(old) + 1, Len(s)), old, new)
         ELSE <<Head(s)>> \o PyReplace(Tail(s), old, new)

----------------------------------------------------------------------------
(* apply_mappings_to_document.  A document is [paragraphs, tables, next_id]; *)
(* a table is a sequence of rows [id, cells], a cell a sequence of           *)
(* paragraphs.  Indices of mappings are 0-based as in the source.            *)

\* "{{" + label + "}}"
JinjaVar(label) == <<"{", "{">> \o label \o <<"}", "}">>

LoopPrefix == <<"_", "_", "L", "O", "O", "P", "_", "_">>

\* f"__LOOP__{loop_var}__{label}__"
Marker(loop_var, label) ==
    LoopPrefix \o loop_var \o <<"_", "_">> \o label \o <<"_", "_">>

\* lines 175-182
ApplyParagraphMapping(doc, m) ==
    LET para_idx == m.paragraph_index.val
    IN  IF para_idx < Len(doc.paragraphs)
        THEN [doc EXCEPT !.paragraphs[para_idx + 1] =
                FindAndReplaceInParagraph(@, m.original_text.val,
                                          JinjaVar(m.label.val)).runs]
        ELSE doc

\* lines 185-197
ApplyCellMapping(doc, m) ==
    LET t == m.table_index.val
        r == m.row_index.val
        c == m.col_index.val
    IN  IF t < Len(doc.tables)
        THEN IF r < Len(doc.tables[t + 1]) /\ c < Len(doc.tables[t + 1][r + 1].cells)
             THEN [doc EXCEPT !.tables[t + 1][r + 1].cells[c + 1] =
                     FindAndReplaceInCell(@, m.original_text.val,
                                          JinjaVar(m.label.val)).paragraphs]
             ELSE doc
        ELSE doc

\* lines 226-230: the marker in the first run of every paragraph that has runs
OverwriteCell(paras, marker) ==
    [k \in 1..Len(paras) |->
        [i \in 1..Len(paras[k]) |->
            [paras[k][i] EXCEPT !.text = IF i = 1 THEN marker ELSE <<>>]]]

\* lines 216-230 for one entry of cell_labels, on the cells of the data row
MarkCell(cells, loop_var, cell_map) ==
    LET col    == cell_map.col_index
        marker == Marker(loop_var, cell_map.label)
    IN  IF col < Len(cells)
        THEN IF cell_map.original_text # <<>>
             THEN [cells EXCEPT ![col + 1] =
                     FindAndReplaceInCell(@, cell_map.original_text, marker).paragraphs]
             ELSE [cells EXCEPT ![col + 1] = OverwriteCell(@, marker)]
        ELSE cells

RECURSIVE MarkCells(_, _, _)
MarkCells(cells, loop_var, cell_labels) ==
    IF cell_labels = <<>> THEN cells
    ELSE MarkCells(MarkCell(cells, loop_var, Head(cell_labels)), loop_var, Tail(cell_labels))

\* lines 203-230
ApplyLoopMapping(doc, m) ==
    LET t == m.table_index.val
        r == m.data_row_index.val
    IN  IF t < Len(doc.tables)
        THEN IF r < Len(doc.tables[t + 1])
             THEN [doc EXCEPT !.tables[t + 1][r + 1].cells =
                     MarkCells(@, m.loop_variable.val, m.cell_labels.val)]
             ELSE doc
        ELSE doc

\* one mapping applied by the loop of its type
ApplyMapping(doc, m) ==
    CASE m.mapping_type = "paragraph"  -> ApplyParagraphMapping(doc, m)
      [] m.mapping_type = "table_cell" -> ApplyCellMapping(doc, m)
      [] m.mapping_type = "table_loop" -> ApplyLoopMapping(doc, m)

\* for mapping in ...: the mappings applied in turn
RECURSIVE ApplyEach(_, _)
ApplyEach(doc, ms) ==
    IF ms = <<>> THEN doc
    ELSE ApplyEach(ApplyMapping(doc, Head(ms)), Tail(ms))

\* apply_mappings_to_document: the document saved at output_path
ApplyMappingsToDocument(source, ms) ==
    LET para_mappings == SelectSeq(ms, LAMBDA m : m.mapping_type = "paragraph")
        cell_mappings == SelectSeq(ms, LAMBDA m : m.mapping_type = "table_cell")
        loop_mappings == SelectSeq(ms, LAMBDA m : m.mapping_type = "table_loop")
    IN  ApplyEach(source, para_mappings \o cell_mappings \o loop_mappings)

----------------------------------------------------------------------------
(* expand_table_loops *)

\* lines 286-289 for one entry of cell_labels on the text of one w:t element
ReplaceMarkerOnce(text, loop_var, cl, item) ==
    LET marker == Marker(loop_var, cl.label)
    IN  IF PyIn(marker, text)
        THEN PyReplaceFirst(text, marker, PyStr(DictGet(item, cl.label, PyStrValue(<<>>))))
        ELSE text

ReplaceMarkerIfPresent(text, loop_var, cl, item) ==
    LET marker == Marker(loop_var, cl.label)
    IN  IF PyIn(marker, text) /\ cl.label \in DOMAIN item
        THEN PyReplace(text, marker, PyStr(item[cl.label]))
        ELSE text

ReplaceMarker(text, loop_var, cl, item) ==
    LET marker == Marker(loop_var, cl.label)
    IN  IF PyIn(marker, text)
        THEN PyReplace(text, marker, PyStr(DictGet(item, cl.label, PyStrValue(<<>>))))
        ELSE text

\* lines 284-289: the text of one w:t element after the loop over cell_labels
RECURSIVE FillText(_, _, _, _)
FillText(text, loop_var, cell_labels, item) ==
    IF text = <<>> \/ cell_labels = <<>> THEN text
    ELSE FillText(ReplaceMarker(text, loop_var, Head(cell_labels), item),
                  loop_var, Tail(cell_labels), item)

\* lines 276-277
CoerceItem(item) ==
    IF item.type = "dict" THEN item.val
    ELSE (<<"v", "a", "l", "u", "e">> :> PyStrValue(PyStr(item)))

\* lines 280-291: the deep copy of the template row, with a node of its own,
\* and every w:t of it filled from the item
FilledClone(template_row, id, loop_var, cell_labels, item) ==
    [id    |-> id,
     cells |-> [c \in 1..Len(template_row.cells) |->
                 [k \in 1..Len(template_row.cells[c]) |->
                   [i \in 1..Len(template_row.cells[c][k]) |->
                     [template_row.cells[c][k][i] EXCEPT !.text =
                        FillText(@, loop_var, cell_labels, CoerceItem(item))]]]]]

\* the template row itself filled from each item in turn: what the rows of
\* new_rows would be were new_tr the node template_tr and not a copy of it
RECURSIVE FilledInPlace(_, _, _, _)
FilledInPlace(template_row, loop_var, cell_labels, items) ==
    IF items = <<>> THEN template_row
    ELSE FilledInPlace(FilledClone(template_row, template_row.id, loop_var, cell_labels,
                                   Head(items)),
                       loop_var, cell_labels, Tail(items))

NewRowsAliased(template_row, first_id, loop_var, cell_labels, items) ==
    [n \in 1..Len(items) |-> FilledInPlace(template_row, loop_var, cell_labels, items)]

\* new_rows (lines 274-291)
NewRows(template_row, first_id, loop_var, cell_labels, items) ==
    [n \in 1..Len(items) |->
        FilledClone(template_row, first_id + n - 1, loop_var, cell_labels, items[n])]

\* template_tr.addnext(new_tr), the template row at position p (1-based)
AddNext(rows, p, new_tr) == SubSeq(rows, 1, p) \o <<new_tr>> \o SubSeq(rows, p + 1, Len(rows))

RECURSIVE InsertInOrder(_, _, _)
InsertInOrder(rows, p, new_rows) ==
    IF new_rows = <<>> THEN rows
    ELSE InsertInOrder(AddNext(rows, p, Head(new_rows)), p, Tail(new_rows))

\* lines 294-295: for new_tr in reversed(new_rows): template_tr.addnext(new_tr)
RECURSIVE InsertReversed(_, _, _)
InsertReversed(rows, p, new_rows) ==
    IF new_rows = <<>> THEN rows
    ELSE InsertReversed(AddNext(rows, p, new_rows[Len(new_rows)]), p,
                        SubSeq(new_rows, 1, Len(new_rows) - 1))

KeepTemplateRow(rows, p) == rows

\* line 298: parent.remove(template_tr)
RemoveTemplateRow(rows, p) == SubSeq(rows, 1, p - 1) \o SubSeq(rows, p + 1, Len(rows))

\* one iteration without the test on items of line 261
ExpandLoopMappingAnyItems(doc, data, m) ==
    LET t     == m.table_index.val
        r     == m.data_row_index.val
        items == DictGet(data, m.loop_variable.val, <<>>)
    IN  IF t >= Len(doc.tables) THEN doc
        ELSE IF r >= Len(doc.tables[t + 1]) THEN doc
        ELSE LET rows     == doc.tables[t + 1]
                 new_rows == NewRows(rows[r + 1], doc.next_id, m.loop_variable.val,
                                     m.cell_labels.val, items)
                 inserted == InsertReversed(rows, r + 1, new_rows)
             IN  [doc EXCEPT !.tables[t + 1] = RemoveTemplateRow(inserted, r + 1),
                             !.next_id = @ + Len(items)]

\* lines 255-298: one iteration of the loop over loop_mappings
ExpandLoopMapping(doc, data, m) ==
    LET t     == m.table_index.val
        r     == m.data_row_index.val
        items == DictGet(data, m.loop_variable.val, <<>>)
    IN  IF items = <<>> \/ t >= Len(doc.tables) THEN doc
        ELSE IF r >= Len(doc.tables[t + 1]) THEN doc
        ELSE LET rows     == doc.tables[t + 1]
                 new_rows == NewRows(rows[r + 1], doc.next_id, m.loop_variable.val,
                                     m.cell_labels.val, items)
                 inserted == InsertReversed(rows, r + 1, new_rows)
             IN  [doc EXCEPT !.tables[t + 1] = RemoveTemplateRow(inserted, r + 1),
                             !.next_id = @ + Len(items)]

\* the documents the loop of lines 254-298 goes through: the template as loaded,
\* then the document after each loop mapping
RECURSIVE ExpansionSteps(_, _, _)
ExpansionSteps(doc, data, loop_mappings) ==
    IF loop_mappings = <<>> THEN <<doc>>
    ELSE <<doc>> \o ExpansionSteps(ExpandLoopMapping(doc, data, Head(loop_mappings)),
                                   data, Tail(loop_mappings))

LoopMappingsOf(ms) == SelectSeq(ms, LAMBDA m : m.mapping_type = "table_loop")

\* expand_table_loops: the document saved at output_path
ExpandTableLoops(template, data, ms) ==
    LET steps == ExpansionSteps(template, data, LoopMappingsOf(ms))
    IN  steps[Len(steps)]

----------------------------------------------------------------------------
(* Paragraphs and call arguments the behaviours start from *)

Alphabet == {"A", "X"}

TextsUpTo(n) == UNION {[1..k -> Alphabet] : k \in 0..n}

\* formatting attributes of the i-th run of a paragraph (bold, font size)
RunFormat(i) == [bold |-> (i % 2 = 1), font_size |-> 10 + i]

\* text t cut into k runs at the offsets cuts[1] <= ... <= cuts[k-1]
SplitIntoRuns(t, k, cuts) ==
    [i \in 1..k |->
        [text |-> SubSeq(t, (IF i = 1 THEN 0 ELSE cuts[i - 1]) + 1,
                            IF i = k THEN Len(t) ELSE cuts[i]),
         fmt  |-> RunFormat(i)]]

Paragraphs ==
    {<<>>} \cup
    {SplitIntoRuns(t, k, cuts) :
        <<t, k, cuts>> \in
            {<<t, k, cuts>> \in
                UNION {UNION {{<<t1, k1, c1>> : c1 \in [1..(k1 - 1) -> 0..Len(t1)]} :
                                 k1 \in 1..MaxRuns} : t1 \in TextsUpTo(MaxTextLen)} :
                \A i \in 1..(k - 2) : cuts[i] <= cuts[i + 1]}}

Targets == TextsUpTo(MaxRuns)

Replacements == {<<>>, <<"R">>, <<"X", "X">>}

\* no document is open in the behaviours of the two functions above
NoDocument ==
    /\ source_doc = None
    /\ mappings = <<>>
    /\ template_doc = None
    /\ render_data = <<>>
    /\ expansion_steps = <<>>

\* no template is registered and nothing is stored in the behaviours of the
\* functions of docx_parser_service called on their own
NoService ==
    /\ templates = <<>>
    /\ template_mappings = <<>>
    /\ storage = <<>>
    /\ rendered_documents = <<>>
    /\ response = None
    /\ uuid_count = 0

----------------------------------------------------------------------------
(* Behaviours of the paragraph-level substitution *)

InitParagraph ==
    /\ scope = "paragraph"
    /\ update_call = None
    /\ op = "init"
    /\ paragraph \in Paragraphs
    /\ paragraph_before = <<>>
    /\ cell = <<>>
    /\ cell_before = <<>>
    /\ target_text = <<>>
    /\ replacement = <<>>
    /\ result = FALSE
    /\ NoDocument
    /\ NoService

\* one call _find_and_replace_in_paragraph(paragraph, target, repl): a first call
\* with any arguments, or the same mapping applied to the paragraph once more
CallFindAndReplaceInParagraph ==
    /\ scope = "paragraph"
    /\ Len(ParagraphText(paragraph)) <= MaxTextLen
    /\ \E target \in Targets, repl \in Replacements :
        LET r == FindAndReplaceInParagraph(paragraph, target, repl)
        IN  /\ op = "init" \/ (target = target_text /\ repl = replacement)
            /\ op' = "find_and_replace_in_paragraph"
            /\ paragraph_before' = paragraph
            /\ paragraph' = r.runs
            /\ result' = r.ok
            /\ target_text' = target
            /\ replacement' = repl
    /\ UNCHANGED <<scope, update_call, cell, cell_before, docVars, svcVars>>

NextParagraph == CallFindAndReplaceInParagraph

SpecParagraph == InitParagraph /\ [][NextParagraph]_vars

----------------------------------------------------------------------------
(* Properties of _find_and_replace_in_paragraph, stated on the paragraph    *)
(* before and after the last call                                           *)

ParagraphCalled == op = "find_and_replace_in_paragraph"

Succeeded == ParagraphCalled /\ result = TRUE /\ target_text # <<>>

TextBefore == ParagraphText(paragraph_before)
TextAfter == ParagraphText(paragraph)

\* i is the offset of the leftmost occurrence of target in text
IsLeftmost(text, target, i) ==
    /\ OccursAt(text, target, i)
    /\ \A j \in 0..(i - 1) : ~OccursAt(text, target, j)

\* the matched span [MatchStart, MatchEnd) in the text before the call
MatchStart == CHOOSE i \in 0..Len(TextBefore) : IsLeftmost(TextBefore, target_text, i)
MatchEnd == MatchStart + Len(target_text)

\* the offset at which run i started before the call
StartBefore(i) == Len(ParagraphText(SubSeq(paragraph_before, 1, i - 1)))

\* the half-open intervals [a, b) and [c, d) share a position
IntervalsMeet(a, b, c, d) == Max(a, c) < Min(b, d)

\* the runs whose interval shares a character position with [s, e)
OverlappingRuns(s, e) ==
    {i \in 1..Len(paragraph_before) :
        IntervalsMeet(StartBefore(i), StartBefore(i) + Len(paragraph_before[i].text), s, e)}

MatchedRuns == OverlappingRuns(MatchStart, MatchEnd)

Lowest(S) == CHOOSE i \in S : \A j \in S : i <= j
Highest(S) == CHOOSE i \in S : \A j \in S : j <= i

\* the part of run f before offset s, and the part of run l from offset e on
PrefixBefore(f, s) == SubSeq(paragraph_before[f].text, 1, s - StartBefore(f))
SuffixAfter(l, e) ==
    SubSeq(paragraph_before[l].text, e - StartBefore(l) + 1, Len(paragraph_before[l].text))

\* C1: a successful call leaves the paragraph text equal to the old text with
\* only the leftmost occurrence of target_text replaced by replacement.
C1_FirstOccurrence ==
    Succeeded =>
        LET before == TextBefore
        IN  \E i \in 0..Len(before) :
              /\ IsLeftmost(before, target_text, i)
              /\ TextAfter = SubSeq(before, 1, i) \o replacement
                             \o SubSeq(before, i + Len(target_text) + 1, Len(before))

\* the text "AXAX" (in any partition into two or more runs) with target "X"
C1_Witness ==
    /\ Succeeded
    /\ Len(paragraph_before) >= 2
    /\ target_text = <<"X">>
    /\ replacement = <<"R">>
    /\ TextBefore = <<"A", "X", "A", "X">>
    /\ TextAfter = <<"A", "R", "A", "X">>

\* C2: whenever the call returns True, the length of the joined run texts is
\* old_length - len(target_text) + len(replacement).
C2_Length ==
    (ParagraphCalled /\ result = TRUE) =>
        Len(TextAfter) = Len(TextBefore) - Len(target_text) + Len(replacement)

\* a multi-run match whose replacement contains the target
C2_Witness ==
    /\ ParagraphCalled /\ result = TRUE
    /\ target_text = <<"X", "A">>
    /\ replacement = <<"X", "X">>
    /\ Cardinality(MatchedRuns) >= 2
    /\ Len(TextAfter) = Len(TextBefore)

\* C3: when target_text is not a substring of the joined run texts, the call
\* returns False and every run is what it was before the call.
C3_NotFound ==
    ParagraphCalled =>
        LET before == TextBefore
        IN  (\A i \in 0..Len(before) : ~OccursAt(before, target_text, i)) =>
                (result = FALSE /\ paragraph = paragraph_before)

C3_Witness ==
    /\ ParagraphCalled
    /\ Len(paragraph_before) >= 2
    /\ Len(target_text) >= 2
    /\ TextBefore # <<>>
    /\ \A i \in 0..Len(TextBefore) : ~OccursAt(TextBefore, target_text, i)
    /\ result = FALSE

\* C4: when the matched span overlaps two or more runs, the first overlapping
\* run becomes its pre-match prefix followed by replacement, every run strictly
\* between the first and the last overlapping run is empty, and the last
\* overlapping run becomes its post-match suffix.
C4_MultiRun ==
    Succeeded =>
        LET s       == MatchStart
            e       == s + Len(target_text)
            matched == OverlappingRuns(s, e)
            f       == Lowest(matched)
            l       == Highest(matched)
        IN  Cardinality(matched) >= 2 =>
              /\ paragraph[f].text = PrefixBefore(f, s) \o replacement
              /\ \A i \in 1..Len(paragraph) : (f < i /\ i < l) => paragraph[i].text = <<>>
              /\ paragraph[l].text = SuffixAfter(l, e)

\* three overlapping runs, the middle one with text
C4_Witness ==
    /\ Succeeded
    /\ MatchedRuns = {1, 2, 3}
    /\ paragraph_before[2].text # <<>>
    /\ PrefixBefore(1, MatchStart) # <<>>
    /\ replacement # <<>>

\* C5: when the matched span lies inside exactly one run, that run becomes
\* prefix + replacement + suffix, also when empty runs sit next to it.
C5_SingleRun ==
    Succeeded =>
        LET s       == MatchStart
            e       == s + Len(target_text)
            matched == OverlappingRuns(s, e)
            f       == Lowest(matched)
        IN  Cardinality(matched) = 1 =>
              paragraph[f].text = PrefixBefore(f, s) \o replacement \o SuffixAfter(f, e)

\* the match inside run 2, with the empty runs 1 and 3 on both sides
C5_Witness ==
    /\ Succeeded
    /\ MatchedRuns = {2}
    /\ Len(paragraph_before) = 3
    /\ paragraph_before[1].text = <<>>
    /\ paragraph_before[3].text = <<>>
    /\ PrefixBefore(2, MatchStart) # <<>>
    /\ SuffixAfter(2, MatchEnd) # <<>>
    /\ replacement # <<>>

\* C6: a call keeps the number and order of the runs and every run's
\* formatting, and the text of every run that does not overlap the matched span.
C6_Frame ==
    ParagraphCalled =>
        /\ Len(paragraph) = Len(paragraph_before)
        /\ \A i \in 1..Len(paragraph_before) : paragraph[i].fmt = paragraph_before[i].fmt
        /\ IF Succeeded
           THEN LET matched == MatchedRuns
                IN  \A i \in 1..Len(paragraph_before) :
                      i \notin matched => paragraph[i].text = paragraph_before[i].text
           ELSE paragraph = paragraph_before

\* a match in the middle run only, with text in the runs on both sides
C6_Witness ==
    /\ Succeeded
    /\ MatchedRuns = {2}
    /\ Len(paragraph_before) = 3
    /\ paragraph_before[1].text # <<>>
    /\ paragraph_before[3].text # <<>>
    /\ paragraph # paragraph_before


----------------------------------------------------------------------------
(* Behaviours of the cell-level substitution *)

\* the paragraphs a cell is built from: no target, a target in the second run,
\* two targets in one run, a target split over two runs, a paragraph without runs
CellParagraphs ==
    {SplitIntoRuns(<<"A", "A">>, 1, <<>>),
     SplitIntoRuns(<<"A", "X">>, 2, <<1>>),
     SplitIntoRuns(<<"X", "A", "X">>, 1, <<>>),
     SplitIntoRuns(<<"A", "X", "A">>, 2, <<2>>),
     <<>>}

\* a cell holds one or more paragraphs
Cells == UNION {[1..n -> CellParagraphs] : n \in 1..MaxParas}

InitCell ==
    /\ scope = "cell"
    /\ update_call = None
    /\ op = "init"
    /\ cell \in Cells
    /\ cell_before = <<>>
    /\ paragraph = <<>>
    /\ paragraph_before = <<>>
    /\ target_text = <<>>
    /\ replacement = <<>>
    /\ result = FALSE
    /\ NoDocument
    /\ NoService

\* one call _find_and_replace_in_cell(cell, target, repl)
CallFindAndReplaceInCell ==
    /\ scope = "cell"
    /\ \A k \in 1..Len(cell) : Len(ParagraphText(cell[k])) <= MaxTextLen
    /\ \E target \in Targets, repl \in Replacements :
        LET r == FindAndReplaceInCell(cell, target, repl)
        IN  /\ op = "init" \/ (target = target_text /\ repl = replacement)
            /\ op' = "find_and_replace_in_cell"
            /\ cell_before' = cell
            /\ cell' = r.paragraphs
            /\ result' = r.ok
            /\ target_text' = target
            /\ replacement' = repl
    /\ UNCHANGED <<scope, update_call, paragraph, paragraph_before, docVars, svcVars>>

NextCell == CallFindAndReplaceInCell

SpecCell == InitCell /\ [][NextCell]_vars

CellCalled == op = "find_and_replace_in_cell"

\* the paragraphs of the cell in which a substitution can succeed: the text
\* holds the (non-empty) target
MatchingParagraphs ==
    {k \in 1..Len(cell_before) :
        target_text # <<>> /\ PyIn(target_text, ParagraphText(cell_before[k]))}

\* C7: the cell's paragraphs are tried in order; the first paragraph in which
\* the substitution succeeds is the only one mutated and True is returned, the
\* paragraphs after it are untouched even if they hold target_text; when no
\* paragraph matches, False is returned and no paragraph is mutated.
C7_CellFirstParagraph ==
    CellCalled =>
        LET matching == MatchingParagraphs
        IN  IF matching = {}
            THEN result = FALSE /\ cell = cell_before
            ELSE LET k == Lowest(matching)
                     t == ParagraphText(cell_before[k])
                     i == CHOOSE i \in 0..Len(t) : IsLeftmost(t, target_text, i)
                 IN  /\ result = TRUE
                     /\ Len(cell) = Len(cell_before)
                     /\ ParagraphText(cell[k]) =
                            SubSeq(t, 1, i) \o replacement
                            \o SubSeq(t, i + Len(target_text) + 1, Len(t))
                     /\ \A j \in 1..Len(cell_before) : j # k => cell[j] = cell_before[j]

\* two paragraphs hold the target: the first is rewritten, the later one untouched
C7_Witness ==
    /\ CellCalled
    /\ result = TRUE
    /\ Cardinality(MatchingParagraphs) >= 2
    /\ cell[Lowest(MatchingParagraphs)] # cell_before[Lowest(MatchingParagraphs)]
    /\ \E j \in MatchingParagraphs :
          j > Lowest(MatchingParagraphs) /\ cell[j] = cell_before[j]


----------------------------------------------------------------------------
(* Documents, mappings and render data of the table loop behaviours *)

LabelA == <<"a">>
LabelB == <<"b">>
VarV == <<"v">>
VarW == <<"w">>

\* the text of the cell in table t, row r, column c (all 0-based): three digits
SourceCellText(t, r, c) == <<DigitChars[t + 1], DigitChars[r + 1], DigitChars[c + 1]>>

\* a cell of one paragraph; its text in one run, or cut after the first character
SourceCell(t, r, c, split) ==
    IF split
    THEN <<SplitIntoRuns(SourceCellText(t, r, c), 2, <<1>>)>>
    ELSE <<SplitIntoRuns(SourceCellText(t, r, c), 1, <<>>)>>

\* a table of MaxRows rows and two columns; the w:tr nodes of table t are
\* numbered from 10 * t
SourceTable(t, split) ==
    [r \in 1..MaxRows |->
        [id    |-> 10 * t + r,
         cells |-> [c \in 1..2 |-> SourceCell(t, r - 1, c - 1, split)]]]

SourceDoc(ntables, split) ==
    [paragraphs |-> <<SplitIntoRuns(<<"A", "X", "A", "X">>, 2, <<1>>)>>,
     tables     |-> [t \in 1..ntables |-> SourceTable(t - 1, split)],
     next_id    |-> 100]

SourceDocs == {SourceDoc(n, split) : n \in 1..2, split \in BOOLEAN}

\* a row of the mapping table (db_list_mappings returns every column)
Mapping(type, fields) ==
    [mapping_type    |-> type,
     label           |-> DictGet(fields, "label", None),
     paragraph_index |-> DictGet(fields, "paragraph_index", None),
     table_index     |-> DictGet(fields, "table_index", None),
     row_index       |-> DictGet(fields, "row_index", None),
     col_index       |-> DictGet(fields, "col_index", None),
     original_text   |-> DictGet(fields, "original_text", None),
     data_row_index  |-> DictGet(fields, "data_row_index", None),
     loop_variable   |-> DictGet(fields, "loop_variable", None),
     cell_labels     |-> DictGet(fields, "cell_labels", None)]

CellLabel(col, label, original) ==
    [col_index |-> col, label |-> label, original_text |-> original]

\* the cell_labels of a loop on row r of table t: the middle character of the
\* cell text as original_text, or no original_text, or one that is not there;
\* in column order or not; or the same label twice in one cell; or an
\* original_text that is the label of the table_cell mapping of SecondMappings
CellLabelChoices(t, r) ==
    {<<CellLabel(0, LabelA, <<DigitChars[r + 1]>>), CellLabel(1, LabelB, <<>>)>>,
     <<CellLabel(1, LabelB, <<DigitChars[r + 1]>>), CellLabel(0, LabelA, <<DigitChars[r + 1]>>)>>,
     <<CellLabel(0, LabelA, <<"Z">>), CellLabel(5, LabelB, <<>>)>>,
     <<CellLabel(0, LabelA, <<DigitChars[r + 1]>>), CellLabel(0, LabelA, <<"0">>)>>,
     <<CellLabel(1, LabelB, <<"c">>)>>}

LoopMapping(var, t, r, cell_labels) ==
    Mapping("table_loop",
            [table_index |-> PyIntValue(t), data_row_index |-> PyIntValue(r),
             loop_variable |-> PyStrValue(var), cell_labels |-> PyList(cell_labels)])

\* the first mapping of a template: a loop over v on a data row of table 0,
\* or one whose table or row does not exist
FirstMappings ==
    {LoopMapping(VarV, 0, r, cl) : <<r, cl>> \in
        UNION {{<<r1, c1>> : c1 \in CellLabelChoices(0, r1)} : r1 \in 1..(MaxRows - 1)}}
    \cup {LoopMapping(VarV, 2, 1, <<CellLabel(0, LabelA, <<>>)>>),
          LoopMapping(VarV, 0, MaxRows, <<CellLabel(0, LabelA, <<>>)>>)}

\* the second mapping, if any: another loop, over v or w, on table 0 or 1; or
\* a scalar mapping on a cell of a data row or on the paragraph
SecondMappings ==
    {LoopMapping(var, t, r, <<CellLabel(1, LabelB, <<DigitChars[r + 1]>>)>>) :
        <<var, t, r>> \in {VarV, VarW} \X (0..1) \X (1..(MaxRows - 1))}
    \cup {Mapping("table_cell",
                  [table_index |-> PyIntValue(0), row_index |-> PyIntValue(1),
                   col_index |-> PyIntValue(1), original_text |-> PyStrValue(<<"0">>),
                   label |-> PyStrValue(<<"c">>)]),
          Mapping("paragraph",
                  [paragraph_index |-> PyIntValue(0),
                   original_text |-> PyStrValue(<<"X", "A">>),
                   label |-> PyStrValue(<<"p">>)])}

MappingLists ==
    {<<m>> : m \in FirstMappings}
    \cup {<<m1, m2>> : <<m1, m2>> \in FirstMappings \X SecondMappings}

\* the items of a loop variable: objects with both fields, with a value that
\* reads like the marker of field b and no field b, and items that are no object
ItemChoices ==
    {PyDict(LabelA :> PyStrValue(<<"P">>) @@ LabelB :> PyIntValue(42)),
     PyDict(LabelA :> PyStrValue(Marker(VarV, LabelB))),
     PyStrValue(<<"Q">>)}

ItemLists == UNION {[1..n -> ItemChoices] : n \in 0..MaxItems}

\* render data: v is bound to a list of items or missing, w is bound to a list
\* of as many plain items as MaxItems allows or missing
RenderData ==
    {dv @@ dw :
        dv \in {<<>>} \cup {(VarV :> items) : items \in ItemLists},
        dw \in {<<>>, (VarW :> [n \in 1..MaxItems |->
                                  PyDict(LabelB :> PyStrValue(<<"W", DigitChars[n + 1]>>))])}}

----------------------------------------------------------------------------
(* Behaviours of materialization and table loop expansion *)

InitLoop ==
    /\ scope = "document"
    /\ update_call = None
    /\ op = "init"
    /\ paragraph = <<>>
    /\ paragraph_before = <<>>
    /\ cell = <<>>
    /\ cell_before = <<>>
    /\ target_text = <<>>
    /\ replacement = <<>>
    /\ result = FALSE
    /\ source_doc \in SourceDocs
    /\ mappings = <<>>
    /\ template_doc = None
    /\ render_data = <<>>
    /\ expansion_steps = <<>>
    /\ NoService

\* apply_mappings_to_document(source_path, mappings, output_path)
CallApplyMappingsToDocument ==
    /\ scope = "document"
    /\ op = "init"
    /\ \E ms \in MappingLists :
        /\ mappings' = ms
        /\ template_doc' = ApplyMappingsToDocument(source_doc, ms)
    /\ op' = "apply_mappings_to_document"
    /\ result' = TRUE
    /\ UNCHANGED <<scope, update_call, paragraph, paragraph_before, cell, cell_before,
                   target_text, replacement, source_doc, render_data, expansion_steps,
                   svcVars>>

\* expand_table_loops(template_path, data, mappings, output_path) on the
\* materialized template (every call loads the saved template afresh, so one
\* call per behaviour shows them all)
CallExpandTableLoops ==
    /\ scope = "document"
    /\ op = "apply_mappings_to_document"
    /\ \E d \in RenderData :
        /\ render_data' = d
        /\ expansion_steps' = ExpansionSteps(template_doc, d, LoopMappingsOf(mappings))
    /\ op' = "expand_table_loops"
    /\ UNCHANGED <<scope, update_call, callVars, source_doc, mappings, template_doc, svcVars>>

NextLoop == CallApplyMappingsToDocument \/ CallExpandTableLoops

SpecLoop == InitLoop /\ [][NextLoop]_vars


----------------------------------------------------------------------------
(* Properties of expand_table_loops, stated on each iteration k of its loop: *)
(* the k-th loop mapping takes the document from expansion_steps[k] to       *)
(* expansion_steps[k + 1]                                                    *)

Expanded == op = "expand_table_loops"

LoopMappings == LoopMappingsOf(mappings)

StepItems(k) == DictGet(render_data, LoopMappings[k].loop_variable.val, <<>>)
StepTable(k) == LoopMappings[k].table_index.val + 1
StepRow(k) == LoopMappings[k].data_row_index.val + 1

RowsBefore(k) == expansion_steps[k].tables[StepTable(k)]
RowsAfter(k) == expansion_steps[k + 1].tables[StepTable(k)]

\* iteration k has a valid table_index and data_row_index and N >= 1 items
ValidStep(k) ==
    /\ StepTable(k) <= Len(expansion_steps[k].tables)
    /\ StepRow(k) <= Len(RowsBefore(k))
    /\ Len(StepItems(k)) >= 1

ValidSteps == {k \in 1..Len(LoopMappings) : ValidStep(k)}

\* C8: for a loop mapping with a valid table_index and data_row_index and
\* N >= 1 items, the row count of its table after the expansion is the row
\* count before it - 1 + N.
C8_RowCount ==
    Expanded =>
        \A k \in ValidSteps :
            Len(RowsAfter(k)) = Len(RowsBefore(k)) - 1 + Len(StepItems(k))

\* two loops expand in the same table, each with two items
C8_Witness ==
    /\ Expanded
    /\ ValidSteps = {1, 2}
    /\ StepTable(1) = StepTable(2)
    /\ Len(StepItems(1)) = 2
    /\ Len(StepItems(2)) = 2
    /\ Len(RowsAfter(2)) = MaxRows + 2

\* C9: after the expansion of the template row at index r with the items
\* i1..iN, the rows r..r+N-1 are the clones filled from i1..iN in input order,
\* the template row is no longer in the table, and the rows before and after it
\* keep their content and order.
C9_OrderAndPosition ==
    Expanded =>
        \A k \in ValidSteps :
            LET before == RowsBefore(k)
                after  == RowsAfter(k)
                r      == StepRow(k)
                items  == StepItems(k)
                m      == LoopMappings[k]
            IN  /\ \A n \in 1..Len(items) :
                      /\ after[r + n - 1].cells =
                            FilledClone(before[r], 0, m.loop_variable.val,
                                        m.cell_labels.val, items[n]).cells
                      /\ \A j \in 1..Len(before) : after[r + n - 1].id # before[j].id
                /\ \A j \in 1..Len(after) : after[j].id # before[r].id
                /\ SubSeq(after, 1, r - 1) = SubSeq(before, 1, r - 1)
                /\ SubSeq(after, r + Len(items), Len(after)) = SubSeq(before, r + 1, Len(before))

\* two different items fill a template row that has rows on both sides
C9_Witness ==
    /\ Expanded
    /\ \E k \in ValidSteps :
          /\ Len(StepItems(k)) = 2
          /\ 1 < StepRow(k) /\ StepRow(k) < Len(RowsBefore(k))
          /\ RowsAfter(k)[StepRow(k)].cells # RowsAfter(k)[StepRow(k) + 1].cells
          /\ RowsAfter(k)[StepRow(k)].cells # RowsBefore(k)[StepRow(k)].cells

\* the w:t elements of a row: (cell, paragraph, run)
Leaves(row) ==
    {<<c, p, i>> \in (1..Len(row.cells)) \X (1..MaxParas) \X (1..MaxRuns) :
        p <= Len(row.cells[c]) /\ i <= Len(row.cells[c][p])}
LeafText(row, leaf) == row.cells[leaf[1]][leaf[2]][leaf[3]].text

NoUnderscore(text) == \A i \in 1..Len(text) : text[i] # "_"

\* a token of the form __LOOP__...__
HasLoopToken(text) ==
    \E i \in 0..Len(text) :
        /\ OccursAt(text, LoopPrefix, i)
        /\ \E j \in (i + Len(LoopPrefix))..Len(text) : OccursAt(text, <<"_", "_">>, j)

\* the markers of the mapping's cell_labels
OwnMarkers(m) ==
    {Marker(m.loop_variable.val, m.cell_labels.val[n].label) :
        n \in 1..Len(m.cell_labels.val)}

\* text is made of underscore-free text and whole markers only
RECURSIVE WholeMarkersOnly(_, _)
WholeMarkersOnly(text, markers) ==
    IF text = <<>> THEN TRUE
    ELSE IF Head(text) # "_" THEN WholeMarkersOnly(Tail(text), markers)
    ELSE \E mk \in markers :
            /\ OccursAt(text, mk, 0)
            /\ WholeMarkersOnly(SubSeq(text, Len(mk) + 1, Len(text)), markers)

\* the stringified value of the item's field, the empty string when absent
FieldText(item, label) == PyStr(DictGet(item, label, PyStrValue(<<>>)))

\* text with every marker occurrence replaced, in one pass, by the field's text
RECURSIVE MarkersResolved(_, _, _, _)
MarkersResolved(text, loop_var, cell_labels, item) ==
    IF text = <<>> THEN <<>>
    ELSE LET here == {n \in 1..Len(cell_labels) :
                         OccursAt(text, Marker(loop_var, cell_labels[n].label), 0)}
         IN  IF here = {}
             THEN <<Head(text)>> \o MarkersResolved(Tail(text), loop_var, cell_labels, item)
             ELSE LET label == cell_labels[Lowest(here)].label
                  IN  FieldText(item, label)
                      \o MarkersResolved(SubSeq(text, Len(Marker(loop_var, label)) + 1, Len(text)),
                                         loop_var, cell_labels, item)

\* loop_variable and labels are non-empty words without underscore, and the
\* loop variable is not the word LOOP
PlainNames(m) ==
    /\ m.loop_variable.val # <<>>
    /\ NoUnderscore(m.loop_variable.val)
    /\ m.loop_variable.val # <<"L", "O", "O", "P">>
    /\ \A n \in 1..Len(m.cell_labels.val) :
          /\ m.cell_labels.val[n].label # <<>>
          /\ NoUnderscore(m.cell_labels.val[n].label)

\* the field values of the item hold no underscore
PlainValues(m, item) ==
    \A n \in 1..Len(m.cell_labels.val) :
        NoUnderscore(FieldText(item, m.cell_labels.val[n].label))

\* the claim of C10 as stated: no leaf of a new row holds a __LOOP__...__ token
\* and every marker occurrence reads as the field's value
C10_AsStated ==
    Expanded =>
        \A k \in ValidSteps :
            LET m == LoopMappings[k]
            IN  \A n \in 1..Len(StepItems(k)) :
                  \A leaf \in Leaves(RowsBefore(k)[StepRow(k)]) :
                    LET new == LeafText(RowsAfter(k)[StepRow(k) + n - 1], leaf)
                        old == LeafText(RowsBefore(k)[StepRow(k)], leaf)
                    IN  /\ ~HasLoopToken(new)
                        /\ new = MarkersResolved(old, m.loop_variable.val, m.cell_labels.val,
                                                 CoerceItem(StepItems(k)[n]))

\* C10 (amended): for a mapping whose loop_variable and labels are plain names,
\* every leaf of a new row whose template text is made of underscore-free text
\* and whole markers of the mapping only, filled from an item whose field
\* values hold no underscore, has every marker occurrence replaced by the
\* stringified value of the item's field (the empty string when the field is
\* absent) and holds no __LOOP__...__ token.
C10_MarkersResolved ==
    Expanded =>
        \A k \in ValidSteps :
            LET m == LoopMappings[k]
            IN  \A n \in 1..Len(StepItems(k)) :
                  \A leaf \in Leaves(RowsBefore(k)[StepRow(k)]) :
                    LET new  == LeafText(RowsAfter(k)[StepRow(k) + n - 1], leaf)
                        old  == LeafText(RowsBefore(k)[StepRow(k)], leaf)
                        item == CoerceItem(StepItems(k)[n])
                    IN  (/\ PlainNames(m)
                         /\ PlainValues(m, item)
                         /\ WholeMarkersOnly(old, OwnMarkers(m)))
                        => /\ ~HasLoopToken(new)
                           /\ new = MarkersResolved(old, m.loop_variable.val,
                                                    m.cell_labels.val, item)

\* a leaf with two occurrences of one marker and text around them, filled from
\* an item that has the field; and a leaf filled from an item without the field
C10_Witness ==
    /\ Expanded
    /\ \E k \in ValidSteps :
          LET m == LoopMappings[k]
          IN  /\ Len(StepItems(k)) = 2
              /\ \E leaf \in Leaves(RowsBefore(k)[StepRow(k)]) :
                    LET old == LeafText(RowsBefore(k)[StepRow(k)], leaf)
                    IN  /\ WholeMarkersOnly(old, OwnMarkers(m))
                        /\ old = Marker(VarV, LabelA) \o Marker(VarV, LabelA) \o <<"0">>
                        /\ PlainValues(m, CoerceItem(StepItems(k)[1]))
                        /\ LeafText(RowsAfter(k)[StepRow(k)], leaf) = <<"P", "P", "0">>
                        /\ PlainValues(m, CoerceItem(StepItems(k)[2]))
                        /\ LeafText(RowsAfter(k)[StepRow(k) + 1], leaf) = <<"0">>


\* the loop mappings that work on table t (1-based)
StepsOnTable(t) == {k \in 1..Len(LoopMappings) : StepTable(k) = t}

\* the document expand_table_loops saves
ExpandedDoc == expansion_steps[Len(expansion_steps)]

\* C11: when the data for a loop variable is an empty list or the key is
\* missing, the iteration for that mapping leaves the document as it was, and a
\* table all of whose loops have no items is saved as it was loaded: same rows
\* in the same order, the template row with its markers in place.
C11_EmptyItemsNoOp ==
    Expanded =>
        /\ \A k \in 1..Len(LoopMappings) :
              StepItems(k) = <<>> => expansion_steps[k + 1] = expansion_steps[k]
        /\ \A t \in 1..Len(template_doc.tables) :
              (\A k \in StepsOnTable(t) : StepItems(k) = <<>>)
                  => ExpandedDoc.tables[t] = template_doc.tables[t]

\* the loop over v has an empty list and a template row that carries its
\* marker, and the loop over w expands another table of the same document
C11_Witness ==
    /\ Expanded
    /\ Len(LoopMappings) = 2
    /\ VarV \in DOMAIN render_data
    /\ StepItems(1) = <<>>
    /\ StepTable(1) <= Len(template_doc.tables)
    /\ StepRow(1) <= Len(template_doc.tables[StepTable(1)])
    /\ \E leaf \in Leaves(template_doc.tables[StepTable(1)][StepRow(1)]) :
          HasLoopToken(LeafText(ExpandedDoc.tables[StepTable(1)][StepRow(1)], leaf))
    /\ ValidStep(2)
    /\ StepTable(2) # StepTable(1)
    /\ ExpandedDoc # template_doc


----------------------------------------------------------------------------
(* The template designer: requests, tables and files                        *)
(*                                                                          *)
(* A request body and a table row are Python dicts: functions from field    *)
(* names to values.  mapping_type is a plain string; every other field is a *)
(* tagged Python value.  A path is <<directory, name>>.                     *)

MaxMappings == 2
MaxRenders == 1

\* the mapping ids a behaviour draws: one more than the mappings it may hold
MaxUuids == MaxMappings + 1

PyBoolValue(b) == [type |-> "bool", val |-> b]

StringType == <<"s", "t", "r", "i", "n", "g">>
NumberType == <<"n", "u", "m">>

\* the id of the template of the behaviour, and the uuids of rendered documents
TemplateId == "t1"
DocIds == <<"d1", "d2", "d3">>

RawPath(tid) == <<"templates/raw", tid>>
PublishedPath(tid) == <<"templates/published", tid>>
RenderedPath(doc_id) == <<"rendered", doc_id>>
ExpandedPath(doc_id) == <<"rendered/expanded", doc_id>>
PdfPath(doc_id) == <<"pdfs", doc_id>>

\* bool(value) of a tagged value
Truthy(v) ==
    CASE v.type = "NoneType" -> FALSE
      [] v.type = "bool"     -> v.val
      [] v.type = "int"      -> v.val # 0
      [] v.type = "str"      -> v.val # <<>>
      [] v.type = "list"     -> v.val # <<>>
      [] v.type = "dict"     -> DOMAIN v.val # {}

\* designer.py lines 121-132: the fields each variant must carry, in the order
\* they are tested
RequiredFields(mapping_type) ==
    CASE mapping_type = "paragraph"  -> <<"paragraph_index", "original_text", "label">>
      [] mapping_type = "table_cell" ->
            <<"table_index", "row_index", "col_index", "original_text", "label">>
      [] mapping_type = "table_loop" ->
            <<"table_index", "data_row_index", "loop_variable", "cell_labels">>

MappingTypes == {"paragraph", "table_cell", "table_loop"}

\* the validation without the tests on the fields of the variant
ValidateMappingTypeOnly(mapping) ==
    IF DictGet(mapping, "mapping_type", "paragraph") \notin MappingTypes
    THEN "Unknown mapping_type"
    ELSE "ok"

\* designer.py lines 119-134: the detail of the 400 response, or "ok"
ValidateMapping(mapping) ==
    LET mapping_type == DictGet(mapping, "mapping_type", "paragraph")
    IN  IF mapping_type \notin MappingTypes THEN "Unknown mapping_type"
        ELSE LET fields  == RequiredFields(mapping_type)
                 missing == {i \in 1..Len(fields) : fields[i] \notin DOMAIN mapping}
             IN  IF missing = {} THEN "ok"
                 ELSE fields[Lowest(missing)]

\* json.dumps(value): the text stored in a column, and json.loads of it
JsonDumps(v) == [type |-> "str", json |-> v]
JsonLoads(column) == column.json

\* db_repository.py lines 129-130: the value stored in column cell_labels
CellLabelsColumn(mapping_data) ==
    IF Truthy(DictGet(mapping_data, "cell_labels", None))
    THEN JsonDumps(mapping_data["cell_labels"])
    ELSE None

\* db_repository.py lines 149-150 and 163-164: cell_labels as the row is read
CellLabelsRead(column) ==
    IF column.type = "str" THEN JsonLoads(column) ELSE column

\* db_create_mapping: the row inserted for mapping_data, as db_get_mapping and
\* db_list_mappings read it back
DbMappingRow(mapping_id, mapping_data) ==
    [id              |-> mapping_id,
     mapping_type    |-> DictGet(mapping_data, "mapping_type", "paragraph"),
     label           |-> DictGet(mapping_data, "label", None),
     paragraph_index |-> DictGet(mapping_data, "paragraph_index", None),
     table_index     |-> DictGet(mapping_data, "table_index", None),
     row_index       |-> DictGet(mapping_data, "row_index", None),
     col_index       |-> DictGet(mapping_data, "col_index", None),
     original_text   |-> DictGet(mapping_data, "original_text", None),
     required        |-> DictGet(mapping_data, "required", PyBoolValue(TRUE)),
     field_type      |-> DictGet(mapping_data, "field_type", PyStrValue(StringType)),
     data_row_index  |-> DictGet(mapping_data, "data_row_index", None),
     loop_variable   |-> DictGet(mapping_data, "loop_variable", None),
     cell_labels     |-> CellLabelsRead(CellLabelsColumn(mapping_data))]

\* db_get_mapping: the positions of the rows with this id (one or none)
MappingPositions(rows, mapping_id) == {i \in 1..Len(rows) : rows[i].id = mapping_id}

\* db_delete_mapping: the rows left
WithoutMapping(rows, mapping_id) == SelectSeq(rows, LAMBDA m : m.id # mapping_id)

\* update_mapping line 118: {**mapping, **{k: v for k, v in update_data.items() if v is not None}}
Merged(mapping, update_data) ==
    [k \in (DOMAIN mapping) \cup {f \in DOMAIN update_data : update_data[f].type # "NoneType"} |->
        IF k \in DOMAIN update_data /\ update_data[k].type # "NoneType"
        THEN update_data[k]
        ELSE mapping[k]]


\* the files of storage: path -> content
FileExists(files, path) == path \in DOMAIN files
WriteFile(files, path, content) ==
    [q \in (DOMAIN files) \cup {path} |-> IF q = path THEN content ELSE files[q]]
RemoveFile(files, path) == [q \in (DOMAIN files) \ {path} |-> files[q]]

PyPathValue(path) == [type |-> "str", val |-> path]

\* db_get_template / get_template
GetTemplate(template_id) ==
    IF template_id \in DOMAIN templates THEN templates[template_id] ELSE None

IsPublished(t) == t.type # "NoneType" /\ t.status = "published"

----------------------------------------------------------------------------
(* get_template_schema *)

ArrayType == <<"a", "r", "r", "a", "y">>

\* f"Table loop ({len(sub_fields)} columns)"
LoopOriginalText(n) ==
    <<"T", "a", "b", "l", "e", " ", "l", "o", "o", "p", " ", "(">> \o DecimalText(n)
    \o <<" ", "c", "o", "l", "u", "m", "n", "s", ")">>

\* lines 181-186
ScalarField(mapping) ==
    [name          |-> mapping.label,
     type          |-> mapping.field_type,
     required      |-> mapping.required,
     original_text |-> mapping.original_text]

\* lines 192-196
SubField(cl) ==
    [name          |-> cl.label,
     type          |-> DictGet(cl, "field_type", StringType),
     original_text |-> DictGet(cl, "original_text", <<>>)]

\* lines 188-203
LoopField(mapping) ==
    LET cell_labels == mapping.cell_labels.val
        sub_fields  == [i \in 1..Len(cell_labels) |-> SubField(cell_labels[i])]
    IN  [name          |-> mapping.loop_variable,
         type          |-> PyStrValue(ArrayType),
         required      |-> PyBoolValue(TRUE),
         original_text |-> PyStrValue(LoopOriginalText(Len(sub_fields))),
         sub_fields    |-> sub_fields]

\* the loop of lines 174-203 without the test on seen_labels
RECURSIVE SchemaFieldsNoSeen(_, _)
SchemaFieldsNoSeen(rows, seen_labels) ==
    IF rows = <<>> THEN <<>>
    ELSE LET mapping == Head(rows)
         IN  IF mapping.mapping_type \in {"paragraph", "table_cell"}
             THEN <<ScalarField(mapping)>> \o SchemaFieldsNoSeen(Tail(rows), seen_labels)
             ELSE IF mapping.mapping_type = "table_loop"
             THEN <<LoopField(mapping)>> \o SchemaFieldsNoSeen(Tail(rows), seen_labels)
             ELSE SchemaFieldsNoSeen(Tail(rows), seen_labels)

\* lines 171-203: fields, with seen_labels as it stands before the first of rows
RECURSIVE SchemaFields(_, _)
SchemaFields(rows, seen_labels) ==
    IF rows = <<>> THEN <<>>
    ELSE LET mapping == Head(rows)
         IN  IF mapping.mapping_type \in {"paragraph", "table_cell"}
             THEN IF mapping.label \notin seen_labels
                  THEN <<ScalarField(mapping)>>
                       \o SchemaFields(Tail(rows), seen_labels \cup {mapping.label})
                  ELSE SchemaFields(Tail(rows), seen_labels)
             ELSE IF mapping.mapping_type = "table_loop"
             THEN <<LoopField(mapping)>> \o SchemaFields(Tail(rows), seen_labels)
             ELSE SchemaFields(Tail(rows), seen_labels)

\* line 191: "for cl in cell_labels" raises TypeError when the column is NULL
SchemaRaises(rows) ==
    \E i \in 1..Len(rows) :
        rows[i].mapping_type = "table_loop" /\ rows[i].cell_labels.type # "list"

\* get_template_schema(template_id): None, an exception, or the schema
GetTemplateSchema(template_id) ==
    LET t == GetTemplate(template_id)
    IN  IF t.type = "NoneType" THEN None
        ELSE IF SchemaRaises(template_mappings) THEN [type |-> "TypeError"]
        ELSE [type        |-> "dict",
              template_id |-> template_id,
              status      |-> t.status,
              fields      |-> SchemaFields(template_mappings, {})]

----------------------------------------------------------------------------
(* publish_template and render_document *)

\* apply_mappings_to_document line 215: "for cell_map in cell_labels" raises
\* TypeError when the column is NULL and the table and row exist
ApplyRaises(doc, rows) ==
    \E i \in 1..Len(rows) :
        /\ rows[i].mapping_type = "table_loop"
        /\ rows[i].cell_labels.type # "list"
        /\ rows[i].table_index.val < Len(doc.tables)
        /\ rows[i].data_row_index.val < Len(doc.tables[rows[i].table_index.val + 1])

\* a number bound to a loop variable, and the test that a value of the data is
\* one: a list is a sequence and a number a tagged value, which are told apart
\* by their printed forms
NumberItems == PyIntValue(7)
NotIterable(v) == ToString(v) = ToString(NumberItems)

\* expand_table_loops raises TypeError when a row is expanded and either the
\* items are a number (line 275, "enumerate(items)") or the column cell_labels
\* is NULL (line 285, "for cl in cell_labels")
ExpandRaises(doc, data, rows) ==
    \E i \in 1..Len(rows) :
        /\ rows[i].mapping_type = "table_loop"
        /\ \/ rows[i].cell_labels.type # "list"
           \/ NotIterable(DictGet(data, rows[i].loop_variable.val, <<>>))
        /\ DictGet(data, rows[i].loop_variable.val, <<>>) # <<>>
        /\ rows[i].table_index.val < Len(doc.tables)
        /\ rows[i].data_row_index.val < Len(doc.tables[rows[i].table_index.val + 1])

\* render_document lines 229-231: the fields whose name the data lacks
MissingRequired(fields, data) ==
    {i \in 1..Len(fields) : Truthy(fields[i].required) /\ fields[i].name.val \notin DOMAIN data}

\* render_document lines 253-254
DocxtplData(data, loop_mappings) ==
    [k \in {key \in DOMAIN data :
              ~\E i \in 1..Len(loop_mappings) : loop_mappings[i].loop_variable.val = key} |->
        data[k]]

\* render_template(template_path, context, output_path): the file docxtpl saves
RenderTemplate(doc, context) == [template |-> doc, context |-> context]

\* convert_to_pdf(input_path, output_dir): the path of the PDF, None when
\* LibreOffice exits with an error, an exception when it cannot be run
ConverterOutcomes == {"pdf", "none", "raises"}

\* the response of a handler to a request body: status code, detail or message,
\* and what the service function returned or raised
Response(request, code, detail, body) ==
    [request |-> request, code |-> code, detail |-> detail, body |-> body]


----------------------------------------------------------------------------
(* The functions of template_designer_service.py.  Each gives the value it  *)
(* returns and the tables and files it leaves                               *)

\* create_mapping without the test on the template's status
CreateMappingAnyStatus(template_id, mapping_data) ==
    LET t == GetTemplate(template_id)
    IN  IF t.type = "NoneType"
             \/ DictGet(mapping_data, "mapping_type", "paragraph") \notin MappingTypes
        THEN [result |-> None, rows |-> template_mappings]
        ELSE LET row == DbMappingRow(uuid_count + 1, mapping_data)
             IN  [result |-> PyDict(row), rows |-> Append(template_mappings, row)]

\* create_mapping(template_id, mapping_data), lines 90-99
CreateMapping(template_id, mapping_data) ==
    LET t == GetTemplate(template_id)
    IN  IF t.type = "NoneType" \/ t.status = "published"
        THEN [result |-> None, rows |-> template_mappings]
        ELSE IF DictGet(mapping_data, "mapping_type", "paragraph") \notin MappingTypes
        THEN [result |-> None, rows |-> template_mappings]
        ELSE LET row == DbMappingRow(uuid_count + 1, mapping_data)
             IN  [result |-> PyDict(row), rows |-> Append(template_mappings, row)]

\* update_mapping(template_id, mapping_id, update_data), lines 110-120
UpdateMapping(template_id, mapping_id, update_data) ==
    LET at == MappingPositions(template_mappings, mapping_id)
    IN  IF at = {} THEN [result |-> None, rows |-> template_mappings]
        ELSE IF IsPublished(GetTemplate(template_id))
        THEN [result |-> None, rows |-> template_mappings]
        ELSE LET merged == Merged(template_mappings[Lowest(at)], update_data)
                 row    == DbMappingRow(uuid_count + 1, merged)
             IN  [result |-> PyDict(row),
                  rows   |-> Append(WithoutMapping(template_mappings, mapping_id), row)]

\* delete_mapping(template_id, mapping_id), lines 123-127
DeleteMapping(template_id, mapping_id) ==
    IF IsPublished(GetTemplate(template_id))
    THEN [result |-> FALSE, rows |-> template_mappings]
    ELSE [result |-> MappingPositions(template_mappings, mapping_id) # {},
          rows   |-> WithoutMapping(template_mappings, mapping_id)]

\* what a function leaves when it changes nothing
NoEffect(value) ==
    [result |-> value, templates |-> templates, files |-> storage.files, io |-> {},
     rendered |-> rendered_documents]

\* publish_template(template_id), lines 134-158
\* publish_template with the status updated alone: no mapping test, nothing
\* materialized, template_path left as it was
PublishTemplateStatusOnly(template_id) ==
    LET t == GetTemplate(template_id)
    IN  IF t.type = "NoneType" THEN NoEffect(None)
        ELSE LET updated == [t EXCEPT !.status = "published"]
             IN  [result    |-> updated,
                  templates |-> [templates EXCEPT ![template_id] = updated],
                  files     |-> storage.files,
                  io        |-> {},
                  rendered  |-> rendered_documents]

PublishTemplate(template_id) ==
    LET t == GetTemplate(template_id)
    IN  IF t.type = "NoneType" THEN NoEffect(None)
        ELSE IF template_mappings = <<>> THEN NoEffect(None)
        ELSE IF ~FileExists(storage.files, t.file_path.val)
        THEN NoEffect([type |-> "PackageNotFoundError"])
        ELSE IF ApplyRaises(storage.files[t.file_path.val], template_mappings)
        THEN [NoEffect([type |-> "TypeError"]) EXCEPT !.io = {<<"read", t.file_path.val>>}]
        ELSE LET template_path == PublishedPath(template_id)
                 doc     == ApplyMappingsToDocument(storage.files[t.file_path.val],
                                                    template_mappings)
                 updated == [t EXCEPT !.status = "published",
                                      !.template_path = PyPathValue(template_path)]
             IN  [result    |-> updated,
                  templates |-> [templates EXCEPT ![template_id] = updated],
                  files     |-> WriteFile(storage.files, template_path, doc),
                  io        |-> {<<"read", t.file_path.val>>, <<"write", template_path>>},
                  rendered  |-> rendered_documents]


\* the row db_create_rendered inserts (line 242)
PendingRow(doc_id, template_id) ==
    [id |-> doc_id, template_id |-> template_id, docx_path |-> None, pdf_path |-> None,
     status |-> "pending"]

\* db_update_rendered(doc_id, **kwargs): the columns whose value is not None
DbUpdateRendered(row, docx_path, pdf_path, status) ==
    [row EXCEPT !.docx_path = IF docx_path.type # "NoneType" THEN docx_path ELSE @,
                !.pdf_path  = IF pdf_path.type # "NoneType" THEN pdf_path ELSE @,
                !.status    = status]

\* line 270 with the two outcomes exchanged
RenderStatusInverted(pdf_path) == IF Truthy(pdf_path) THEN "docx_only" ELSE "completed"

\* line 270
RenderStatus(pdf_path) == IF Truthy(pdf_path) THEN "completed" ELSE "docx_only"

\* lines 233-279 of render_document: the render itself, validation passed
RenderValidated(template_id, template_path, data, conv) ==
    LET doc_id        == DocIds[Len(rendered_documents) + 1]
        output_docx   == RenderedPath(doc_id)
        pending       == PendingRow(doc_id, template_id)
        loop_mappings == LoopMappingsOf(template_mappings)
        materialized  == storage.files[template_path]
    IN  IF loop_mappings # <<>> /\ ExpandRaises(materialized, data, template_mappings)
        THEN [result    |-> [type |-> "TypeError"],
              templates |-> templates,
              files     |-> storage.files,
              io        |-> {<<"read", template_path>>},
              rendered  |-> Append(rendered_documents, pending)]
        ELSE LET temp_expanded == ExpandedPath(doc_id)
                 docx == IF loop_mappings # <<>>
                         THEN RenderTemplate(
                                  ExpandTableLoops(materialized, data, template_mappings),
                                  DocxtplData(data, loop_mappings))
                         ELSE RenderTemplate(materialized, data)
                 pdf_path == IF conv = "pdf" THEN PyPathValue(PdfPath(doc_id)) ELSE None
                 status   == RenderStatus(pdf_path)
                 files1   == WriteFile(storage.files, output_docx, docx)
                 files2   == IF conv = "pdf"
                             THEN WriteFile(files1, PdfPath(doc_id), [pdf_of |-> output_docx])
                             ELSE files1
             IN  [result    |-> [type        |-> "dict",
                                 document_id |-> doc_id,
                                 template_id |-> template_id,
                                 docx_path   |-> PyPathValue(output_docx),
                                 pdf_path    |-> pdf_path,
                                 status      |-> status],
                  templates |-> templates,
                  files     |-> files2,
                  io        |-> {<<"read", template_path>>, <<"write", output_docx>>}
                                \cup (IF loop_mappings # <<>>
                                      THEN {<<"write", temp_expanded>>, <<"remove", temp_expanded>>}
                                      ELSE {})
                                \cup (IF conv = "pdf" THEN {<<"write", PdfPath(doc_id)>>} ELSE {}),
                  rendered  |-> Append(rendered_documents,
                                       DbUpdateRendered(pending, PyPathValue(output_docx),
                                                        pdf_path, status))]

\* render_document with the record created before the required fields are tested
RenderDocumentRecordFirst(template_id, data, conv) ==
    LET t == GetTemplate(template_id)
    IN  IF t.type = "NoneType" \/ t.status # "published" THEN NoEffect(None)
        ELSE IF ~Truthy(t.template_path) \/ ~FileExists(storage.files, t.template_path.val)
        THEN NoEffect(None)
        ELSE LET schema == GetTemplateSchema(template_id)
             IN  IF schema.type = "TypeError" THEN NoEffect([type |-> "TypeError"])
                 ELSE IF schema.type = "dict" /\ MissingRequired(schema.fields, data) # {}
                 THEN [NoEffect([type  |-> "ValueError",
                                 field |-> schema.fields[Lowest(MissingRequired(schema.fields, data))].name])
                          EXCEPT !.rendered = Append(rendered_documents,
                                    PendingRow(DocIds[Len(rendered_documents) + 1], template_id))]
                 ELSE RenderValidated(template_id, t.template_path.val, data, conv)

\* render_document without the tests on the status and on template_path:
\* the raw document is rendered when there is no materialized one
RenderDocumentAnyStatus(template_id, data, conv) ==
    LET t == GetTemplate(template_id)
    IN  IF t.type = "NoneType" THEN NoEffect(None)
        ELSE IF SchemaRaises(template_mappings) THEN NoEffect([type |-> "TypeError"])
        ELSE RenderValidated(template_id,
                             IF Truthy(t.template_path) THEN t.template_path.val
                             ELSE t.file_path.val,
                             data, conv)

\* render_document(template_id, data), lines 217-279; conv is what the
\* converter does
RenderDocument(template_id, data, conv) ==
    LET t == GetTemplate(template_id)
    IN  IF t.type = "NoneType" \/ t.status # "published" THEN NoEffect(None)
        ELSE IF ~Truthy(t.template_path) \/ ~FileExists(storage.files, t.template_path.val)
        THEN NoEffect(None)
        ELSE LET schema == GetTemplateSchema(template_id)
             IN  IF schema.type = "TypeError" THEN NoEffect([type |-> "TypeError"])
                 ELSE IF schema.type = "dict" /\ MissingRequired(schema.fields, data) # {}
                 THEN NoEffect([type  |-> "ValueError",
                                field |-> schema.fields[Lowest(MissingRequired(schema.fields, data))].name])
                 ELSE RenderValidated(template_id, t.template_path.val, data, conv)

\* delete_template(template_id), lines 55-67
DeleteTemplate(template_id) ==
    LET t == GetTemplate(template_id)
    IN  IF t.type = "NoneType" THEN NoEffect(FALSE)
        ELSE LET paths == {q \in {t.file_path, t.template_path} :
                              Truthy(q) /\ FileExists(storage.files, q.val)}
             IN  [result    |-> TRUE,
                  templates |-> [i \in (DOMAIN templates) \ {template_id} |-> templates[i]],
                  files     |-> [q \in (DOMAIN storage.files) \ {x.val : x \in paths} |->
                                    storage.files[q]],
                  io        |-> {<<"remove", x.val>> : x \in paths},
                  rendered  |-> rendered_documents]


----------------------------------------------------------------------------
(* Requests of the designer behaviours *)

\* the document uploaded as the raw template
UploadedDoc == SourceDoc(1, FALSE)

LabelP == <<"p">>
LabelQ == <<"q">>
LabelC == <<"c">>

\* bodies of POST /{template_id}/mappings
ParagraphRequest ==
    [mapping_type |-> "paragraph", paragraph_index |-> PyIntValue(0),
     original_text |-> PyStrValue(<<"X", "A">>), label |-> PyStrValue(LabelP)]

\* the label of ParagraphRequest once more, with another text, type and flag
RepeatedLabelRequest ==
    [mapping_type |-> "paragraph", paragraph_index |-> PyIntValue(0),
     original_text |-> PyStrValue(<<"A">>), label |-> PyStrValue(LabelP),
     required |-> PyBoolValue(FALSE), field_type |-> PyStrValue(NumberType)]

EmptyOriginalTextRequest ==
    [mapping_type |-> "paragraph", paragraph_index |-> PyIntValue(0),
     original_text |-> PyStrValue(<<>>), label |-> PyStrValue(LabelQ)]

\* no mapping_type, and an original_text that is not in the paragraph
NotFoundRequest ==
    [paragraph_index |-> PyIntValue(0), original_text |-> PyStrValue(<<"Z">>),
     label |-> PyStrValue(LabelQ), required |-> PyBoolValue(FALSE)]

\* a paragraph the document does not have
NoParagraphRequest ==
    [mapping_type |-> "paragraph", paragraph_index |-> PyIntValue(7),
     original_text |-> PyStrValue(<<"X", "A">>), label |-> PyStrValue(LabelC)]

MissingLabelRequest ==
    [mapping_type |-> "paragraph", paragraph_index |-> PyIntValue(0),
     original_text |-> PyStrValue(<<"X", "A">>)]

CellRequest ==
    [mapping_type |-> "table_cell", table_index |-> PyIntValue(0), row_index |-> PyIntValue(0),
     col_index |-> PyIntValue(1), original_text |-> PyStrValue(<<"0">>),
     label |-> PyStrValue(LabelC)]

MissingColRequest ==
    [mapping_type |-> "table_cell", table_index |-> PyIntValue(0), row_index |-> PyIntValue(0),
     original_text |-> PyStrValue(<<"0">>), label |-> PyStrValue(LabelC)]

LoopRequest ==
    [mapping_type |-> "table_loop", table_index |-> PyIntValue(0),
     data_row_index |-> PyIntValue(1), loop_variable |-> PyStrValue(VarV),
     cell_labels |-> PyList(<<CellLabel(1, LabelB, <<>>), CellLabel(0, LabelA, <<"1">>)>>)]

\* no cell_labels entry, on a table the document does not have
EmptyCellLabelsRequest ==
    [mapping_type |-> "table_loop", table_index |-> PyIntValue(3),
     data_row_index |-> PyIntValue(1), loop_variable |-> PyStrValue(VarW),
     cell_labels |-> PyList(<<>>)]

DuplicateColRequest ==
    [mapping_type |-> "table_loop", table_index |-> PyIntValue(0),
     data_row_index |-> PyIntValue(2), loop_variable |-> PyStrValue(VarW),
     cell_labels |-> PyList(<<CellLabel(0, LabelA, <<"2">>), CellLabel(0, LabelB, <<"0">>)>>)]

MissingLoopVariableRequest ==
    [mapping_type |-> "table_loop", table_index |-> PyIntValue(0),
     data_row_index |-> PyIntValue(1),
     cell_labels |-> PyList(<<CellLabel(0, LabelA, <<"1">>)>>)]

UnknownTypeRequest ==
    [mapping_type |-> "image", paragraph_index |-> PyIntValue(0),
     original_text |-> PyStrValue(<<"X", "A">>), label |-> PyStrValue(LabelP)]

\* the requests sent when the template has no mapping, one mapping, or more
FirstRequests ==
    {ParagraphRequest, NotFoundRequest, LoopRequest, EmptyCellLabelsRequest,
     MissingLabelRequest, UnknownTypeRequest}

SecondRequests ==
    {RepeatedLabelRequest, EmptyOriginalTextRequest, CellRequest, DuplicateColRequest,
     MissingColRequest, MissingLoopVariableRequest}

LaterRequests == {NoParagraphRequest, UnknownTypeRequest}

MappingRequests(n) ==
    CASE n = 0 -> FirstRequests
      [] n = 1 -> SecondRequests
      [] OTHER -> LaterRequests

\* bodies of PUT /{template_id}/mappings/{mapping_id}
UpdateRequests == {[label |-> PyStrValue(LabelQ), original_text |-> None]}

\* the mapping ids a request may name
MappingIds == {1, 2}

\* bodies of POST /{template_id}/render
RenderItem == PyDict(LabelA :> PyStrValue(<<"P">>) @@ LabelB :> PyIntValue(42))

\* the body that names every field
CompleteRenderRequest ==
    (LabelP :> PyStrValue(<<"S">>) @@ LabelQ :> PyStrValue(<<"S">>)
        @@ LabelC :> PyStrValue(<<"S">>) @@ VarV :> <<RenderItem, RenderItem>>
        @@ VarW :> <<RenderItem>>)

\* the body that binds loop variable v to a number
NumberLoopRequest ==
    (LabelP :> PyStrValue(<<"S">>) @@ LabelQ :> PyStrValue(<<"S">>)
        @@ LabelC :> PyStrValue(<<"S">>) @@ VarV :> NumberItems)

RenderRequests ==
    {<<>>,
     (LabelP :> PyStrValue(<<"S">>) @@ LabelQ :> PyStrValue(<<"S">>)
        @@ LabelC :> PyStrValue(<<"S">>)),
     (LabelP :> PyStrValue(<<"S">>) @@ VarV :> <<>> @@ VarW :> <<>>),
     CompleteRenderRequest,
     NumberLoopRequest}

\* the first render of a behaviour sends any of the bodies, a later one the
\* body that names every field
RenderRequestsAfter(n) == IF n = 0 THEN RenderRequests ELSE {CompleteRenderRequest}


----------------------------------------------------------------------------
(* Behaviours of the designer API (app/api/v1/designer.py): one action per  *)
(* request handler, the service functions it calls included                 *)

InitDesigner ==
    /\ scope = "designer"
    /\ update_call = None
    /\ op = "init"
    /\ paragraph = <<>>
    /\ paragraph_before = <<>>
    /\ cell = <<>>
    /\ cell_before = <<>>
    /\ target_text = <<>>
    /\ replacement = <<>>
    /\ result = FALSE
    /\ NoDocument
    /\ templates = <<>>
    /\ template_mappings = <<>>
    /\ storage = [files |-> <<>>, io |-> {}]
    /\ rendered_documents = <<>>
    /\ response = None
    /\ uuid_count = 0

\* what no designer request touches
DesignerFrame == UNCHANGED <<scope, update_call, callVars, docVars>>

\* the requests of a behaviour are those sent while its template exists: the
\* deletion of the template is the last one
TemplateExists == TemplateId \in DOMAIN templates

\* POST /raw: upload_raw_template; the behaviour has one template, uploaded first
UploadRawTemplate ==
    /\ scope = "designer"
    /\ op = "init"
    /\ op' = "upload_raw_template"
    /\ templates' = (TemplateId :>
                        [type |-> "dict", id |-> TemplateId, status |-> "draft",
                         file_path |-> PyPathValue(RawPath(TemplateId)),
                         template_path |-> None])
    /\ storage' = [files |-> WriteFile(storage.files, RawPath(TemplateId), UploadedDoc),
                   io    |-> {<<"write", RawPath(TemplateId)>>}]
    /\ response' = Response(None, 200, "uploaded", PyStrValue(TemplateId))
    /\ UNCHANGED <<template_mappings, rendered_documents, uuid_count>>
    /\ DesignerFrame

\* POST /{template_id}/mappings: create_template_mapping
CreateTemplateMapping ==
    /\ scope = "designer"
    /\ TemplateExists
    /\ \E mapping \in MappingRequests(Len(template_mappings)) :
        LET check   == ValidateMapping(mapping)
            created == CreateMapping(TemplateId, mapping)
        IN  IF check # "ok"
            THEN /\ response' = Response(mapping, 400, check, None)
                 /\ UNCHANGED <<template_mappings, uuid_count>>
            ELSE IF created.result.type = "NoneType"
            THEN /\ response' = Response(mapping, 400, "Cannot create mapping", None)
                 /\ template_mappings' = created.rows
                 /\ UNCHANGED uuid_count
            ELSE /\ Len(template_mappings) < MaxMappings
                 /\ uuid_count < MaxUuids
                 /\ response' = Response(mapping, 200, "Mapping created", created.result)
                 /\ template_mappings' = created.rows
                 /\ uuid_count' = uuid_count + 1
    /\ op' = "create_template_mapping"
    /\ storage' = [storage EXCEPT !.io = {}]
    /\ UNCHANGED <<templates, rendered_documents>>
    /\ DesignerFrame

\* PUT /{template_id}/mappings/{mapping_id}: update_template_mapping
UpdateTemplateMapping ==
    /\ scope = "designer"
    /\ TemplateExists
    /\ \E mapping_id \in MappingIds, data \in UpdateRequests :
        LET updated == UpdateMapping(TemplateId, mapping_id, data)
        IN  IF updated.result.type = "NoneType"
            THEN /\ response' = Response([mapping_id |-> mapping_id], 404, "Mapping not found or template published", None)
                 /\ template_mappings' = updated.rows
                 /\ UNCHANGED uuid_count
            ELSE /\ uuid_count < MaxUuids
                 /\ response' = Response([mapping_id |-> mapping_id], 200, "Updated", updated.result)
                 /\ template_mappings' = updated.rows
                 /\ uuid_count' = uuid_count + 1
    /\ op' = "update_template_mapping"
    /\ storage' = [storage EXCEPT !.io = {}]
    /\ UNCHANGED <<templates, rendered_documents>>
    /\ DesignerFrame

\* DELETE /{template_id}/mappings/{mapping_id}: remove_mapping
RemoveMapping ==
    /\ scope = "designer"
    /\ TemplateExists
    /\ \E mapping_id \in MappingIds :
        LET deleted == DeleteMapping(TemplateId, mapping_id)
        IN  /\ response' = IF deleted.result
                           THEN Response([mapping_id |-> mapping_id], 200, "Deleted", PyBoolValue(TRUE))
                           ELSE Response([mapping_id |-> mapping_id], 404, "Mapping not found or template published",
                                         PyBoolValue(FALSE))
            /\ template_mappings' = deleted.rows
    /\ op' = "remove_mapping"
    /\ storage' = [storage EXCEPT !.io = {}]
    /\ UNCHANGED <<templates, rendered_documents, uuid_count>>
    /\ DesignerFrame

\* the publish handler without the test of line 172
PublishAgain ==
    /\ scope = "designer"
    /\ TemplateExists
    /\ LET t == GetTemplate(TemplateId)
       IN  IF t.type = "NoneType"
           THEN /\ response' = Response(None, 404, "Template not found", None)
                /\ storage' = [storage EXCEPT !.io = {}]
                /\ UNCHANGED templates
           ELSE IF template_mappings = <<>>
           THEN /\ response' = Response(None, 400, "No mappings defined", None)
                /\ storage' = [storage EXCEPT !.io = {}]
                /\ UNCHANGED templates
           ELSE LET published == PublishTemplate(TemplateId)
                IN  /\ response' = IF published.result.type = "dict"
                                   THEN Response(None, 200, "Published", published.result)
                                   ELSE Response(None, 500, "Publish failed", published.result)
                    /\ storage' = [files |-> published.files, io |-> published.io]
                    /\ templates' = published.templates
    /\ op' = "publish"
    /\ UNCHANGED <<template_mappings, rendered_documents, uuid_count>>
    /\ DesignerFrame

\* POST /{template_id}/publish: publish
Publish ==
    /\ scope = "designer"
    /\ TemplateExists
    /\ LET t == GetTemplate(TemplateId)
       IN  IF t.type = "NoneType"
           THEN /\ response' = Response(None, 404, "Template not found", None)
                /\ storage' = [storage EXCEPT !.io = {}]
                /\ UNCHANGED templates
           ELSE IF t.status = "published"
           THEN /\ response' = Response(None, 400, "Already published", None)
                /\ storage' = [storage EXCEPT !.io = {}]
                /\ UNCHANGED templates
           ELSE IF template_mappings = <<>>
           THEN /\ response' = Response(None, 400, "No mappings defined", None)
                /\ storage' = [storage EXCEPT !.io = {}]
                /\ UNCHANGED templates
           ELSE LET published == PublishTemplate(TemplateId)
                IN  /\ response' = IF published.result.type = "dict"
                                   THEN Response(None, 200, "Published", published.result)
                                   ELSE Response(None, 500, "Publish failed", published.result)
                    /\ storage' = [files |-> published.files, io |-> published.io]
                    /\ templates' = published.templates
    /\ op' = "publish"
    /\ UNCHANGED <<template_mappings, rendered_documents, uuid_count>>
    /\ DesignerFrame

\* GET /{template_id}/schema: get_schema
GetSchema ==
    /\ scope = "designer"
    /\ TemplateExists
    /\ LET schema == GetTemplateSchema(TemplateId)
       IN  response' = CASE schema.type = "NoneType"  -> Response(None, 404, "Template not found", None)
                         [] schema.type = "TypeError" -> Response(None, 500, "Internal Server Error", schema)
                         [] schema.type = "dict"      -> Response(None, 200, "schema", schema)
    /\ op' = "get_schema"
    /\ storage' = [storage EXCEPT !.io = {}]
    /\ UNCHANGED <<templates, template_mappings, rendered_documents, uuid_count>>
    /\ DesignerFrame

\* POST /{template_id}/render: render
Render ==
    /\ scope = "designer"
    /\ TemplateExists
    /\ \E data \in RenderRequestsAfter(Len(rendered_documents)), conv \in ConverterOutcomes :
        LET t == GetTemplate(TemplateId)
        IN  IF t.type = "NoneType"
            THEN /\ response' = Response([data |-> data], 404, "Template not found", None)
                 /\ storage' = [storage EXCEPT !.io = {}]
                 /\ UNCHANGED rendered_documents
            ELSE IF t.status # "published"
            THEN /\ response' = Response([data |-> data], 400, "Template must be published first", None)
                 /\ storage' = [storage EXCEPT !.io = {}]
                 /\ UNCHANGED rendered_documents
            ELSE LET rendered == RenderDocument(TemplateId, data, conv)
                 IN  /\ Len(rendered.rendered) <= MaxRenders
                     /\ response' =
                          CASE rendered.result.type = "ValueError" ->
                                  Response([data |-> data], 400, "Missing required field", rendered.result)
                            [] rendered.result.type = "TypeError" ->
                                  Response([data |-> data], 500, "Render failed", rendered.result)
                            [] rendered.result.type = "NoneType" ->
                                  Response([data |-> data], 500, "Render failed", None)
                            [] rendered.result.type = "dict" ->
                                  Response([data |-> data], 200, "rendered", rendered.result)
                     /\ storage' = [files |-> rendered.files, io |-> rendered.io]
                     /\ rendered_documents' = rendered.rendered
    /\ op' = "render"
    /\ UNCHANGED <<templates, template_mappings, uuid_count>>
    /\ DesignerFrame

\* DELETE /{template_id}: remove_template
RemoveTemplate ==
    /\ scope = "designer"
    /\ TemplateExists
    /\ LET deleted == DeleteTemplate(TemplateId)
       IN  /\ response' = IF deleted.result
                          THEN Response(None, 200, "Template deleted", PyBoolValue(TRUE))
                          ELSE Response(None, 404, "Template not found", PyBoolValue(FALSE))
           /\ storage' = [files |-> deleted.files, io |-> deleted.io]
           /\ templates' = deleted.templates
    /\ op' = "remove_template"
    /\ UNCHANGED <<template_mappings, rendered_documents, uuid_count>>
    /\ DesignerFrame

NextDesigner ==
    \/ UploadRawTemplate
    \/ CreateTemplateMapping
    \/ UpdateTemplateMapping
    \/ RemoveMapping
    \/ Publish
    \/ GetSchema
    \/ Render
    \/ RemoveTemplate

SpecDesigner == InitDesigner /\ [][NextDesigner]_vars


----------------------------------------------------------------------------
(* Properties of the designer *)

\* the template of the behaviour is published
Published == scope = "designer" /\ IsPublished(GetTemplate(TemplateId))

\* every mapping body and mapping id the requests of the behaviours carry
AllMappingRequests == FirstRequests \cup SecondRequests \cup LaterRequests

\* a step of the mapping handlers on a published template answers with a
\* rejection and leaves the stored mappings as they are
FrozenStep ==
    Published =>
        /\ template_mappings' = template_mappings
        /\ op' = "create_template_mapping" =>
              response'.code = 400 /\ response'.body.type = "NoneType"
        /\ op' = "update_template_mapping" =>
              response'.code = 404 /\ response'.body.type = "NoneType"
        /\ op' = "remove_mapping" =>
              response'.code = 404 /\ response'.body = PyBoolValue(FALSE)

\* the three service functions reject every call on a published template
FrozenCalls ==
    Published =>
        /\ \A mapping \in AllMappingRequests :
              LET created == CreateMapping(TemplateId, mapping)
              IN  created.result.type = "NoneType" /\ created.rows = template_mappings
        /\ \A mapping_id \in 1..MaxUuids, data \in UpdateRequests :
              LET updated == UpdateMapping(TemplateId, mapping_id, data)
              IN  updated.result.type = "NoneType" /\ updated.rows = template_mappings
        /\ \A mapping_id \in 1..MaxUuids :
              LET deleted == DeleteMapping(TemplateId, mapping_id)
              IN  deleted.result = FALSE /\ deleted.rows = template_mappings

\* C12: while a template is published, create_mapping, update_mapping and
\* delete_mapping on it are rejected (None, None, False) and its stored
\* mappings stay the ones it was published with
C12_MappingFreeze == [](FrozenCalls) /\ [][FrozenStep]_vars

\* a stored mapping was named by a delete request on the published template,
\* the request was refused and the mapping is still stored
C12_Witness ==
    /\ Published
    /\ op = "remove_mapping"
    /\ response.code = 404
    /\ MappingPositions(template_mappings, response.request.mapping_id) # {}
    /\ Len(template_mappings) = 2


\* the file of the materialized template
MaterializedPath == PublishedPath(TemplateId)

Reads(io) == {e \in io : e[1] = "read"}
Writes(io) == {e \in io : e[1] = "write"}

\* a published template has its file, made from the raw document and the
\* whole registry, and the file was written by the publish that succeeded
MaterializedOnce ==
    /\ Published =>
          /\ GetTemplate(TemplateId).template_path = PyPathValue(MaterializedPath)
          /\ FileExists(storage.files, MaterializedPath)
          /\ storage.files[MaterializedPath]
                = ApplyMappingsToDocument(storage.files[RawPath(TemplateId)], template_mappings)
    /\ (scope = "designer" /\ op = "publish" /\ response.code = 200) =>
          <<"write", MaterializedPath>> \in storage.io

\* only the publish of an unpublished template writes the file; later
\* requests to the published template leave it as it is, and a render reads
\* no other file and writes only files that did not exist
MaterializedKept ==
    /\ (scope = "designer" /\ <<"write", MaterializedPath>> \in storage'.io) =>
          ~Published /\ Published' /\ op' = "publish"
    /\ (Published /\ Published') =>
          /\ <<"remove", MaterializedPath>> \notin storage'.io
          /\ storage'.files[MaterializedPath] = storage.files[MaterializedPath]
          /\ op' = "render" =>
                /\ Reads(storage'.io) \subseteq {<<"read", MaterializedPath>>}
                /\ \A e \in Writes(storage'.io) : ~FileExists(storage.files, e[2])

\* C13: the file at template_path is written once, by publish, and never
\* rewritten; render_document reads only that file and writes only new
\* per-render paths, so renders and repeated publish requests leave it unchanged
C13_MaterializedImmutable == [](MaterializedOnce) /\ [][MaterializedKept]_vars

\* a publish request repeated after a render was answered "Already published"
C13_Witness ==
    /\ Published
    /\ op = "publish"
    /\ response.code = 400
    /\ response.detail = "Already published"
    /\ Len(rendered_documents) >= 1
    /\ FileExists(storage.files, RenderedPath(rendered_documents[1].id))
    /\ FileExists(storage.files, MaterializedPath)


\* the names of the required fields of the schema that a render body lacks
MissingNames(data) ==
    LET schema == GetTemplateSchema(TemplateId)
    IN  IF schema.type = "dict"
        THEN {schema.fields[i].name : i \in MissingRequired(schema.fields, data)}
        ELSE {}

\* a render of a published template whose body lacks a required field of the
\* schema is answered with that error, and the rendered documents and the
\* files are those of before, no file having been written
MissingRequiredStep ==
    (/\ Published
     /\ FileExists(storage.files, MaterializedPath)
     /\ op' = "render"
     /\ MissingNames(response'.request.data) # {}) =>
        /\ response'.code = 400
        /\ response'.body.type = "ValueError"
        /\ response'.body.field \in MissingNames(response'.request.data)
        /\ rendered_documents' = rendered_documents
        /\ storage'.files = storage.files
        /\ storage'.io = {}

\* C14: when the render data omits the name of a required schema field,
\* render_document raises the missing-required-field error before a
\* rendered-document record is created and before any file is written
C14_MissingRequiredFirst == [][MissingRequiredStep]_vars

\* a render without the loop variable of a stored table_loop mapping got the
\* error that names it
C14_Witness ==
    /\ Published
    /\ op = "render"
    /\ response.code = 400
    /\ response.body.type = "ValueError"
    /\ response.body.field = PyStrValue(VarV)
    /\ VarV \notin DOMAIN response.request.data
    /\ LabelP \in DOMAIN response.request.data
    /\ rendered_documents = <<>>


\* the row render_document leaves for the document it returns
RenderedRow(rows, doc_id) == rows[Lowest({i \in 1..Len(rows) : rows[i].id = doc_id})]

\* what a render call that got past the validation returns and stores, for
\* each thing the converter can do
BestEffortCall(data, conv) ==
    LET call      == RenderDocument(TemplateId, data, conv)
        converted == RenderDocument(TemplateId, data, "pdf")
    IN  /\ call.result.type = converted.result.type
        /\ call.result.type = "dict" =>
              LET row == RenderedRow(call.rendered, call.result.document_id)
              IN  /\ call.result.docx_path = PyPathValue(RenderedPath(call.result.document_id))
                  /\ FileExists(call.files, RenderedPath(call.result.document_id))
                  /\ row.docx_path = call.result.docx_path
                  /\ row.status = call.result.status
                  /\ conv \in {"none", "raises"} =>
                        /\ call.result.status = "docx_only"
                        /\ call.result.pdf_path = None
                        /\ row.pdf_path = None
                  /\ call.result.status = "completed" <=> Truthy(call.result.pdf_path)
                  /\ call.result.status \in {"completed", "docx_only"}

\* C15: when the converter returns no path or raises, render_document still
\* returns the rendered DOCX with status docx_only and stores that status;
\* the status is completed exactly when a PDF path was produced
C15_PdfBestEffort ==
    /\ Published =>
          \A data \in RenderRequests, conv \in ConverterOutcomes : BestEffortCall(data, conv)
    /\ (scope = "designer" /\ op = "render" /\ response.code = 200) =>
          LET row == RenderedRow(rendered_documents, response.body.document_id)
          IN  /\ row.status = response.body.status
              /\ response.body.status = "completed" <=> Truthy(response.body.pdf_path)
              /\ row.status = "completed" <=> Truthy(row.pdf_path)

\* a render whose conversion failed was answered with the DOCX alone
C15_Witness ==
    /\ Published
    /\ op = "render"
    /\ response.code = 200
    /\ response.body.status = "docx_only"
    /\ response.body.pdf_path = None
    /\ RenderedRow(rendered_documents, response.body.document_id).status = "docx_only"
    /\ FileExists(storage.files, RenderedPath(response.body.document_id))
    /\ ~FileExists(storage.files, PdfPath(response.body.document_id))


\* the substitution of one mapping on doc finds nothing to replace: its
\* index is out of range or _find_and_replace_* returns False
SubstitutionFails(doc, m) ==
    CASE m.mapping_type = "paragraph" ->
            \/ m.paragraph_index.val >= Len(doc.paragraphs)
            \/ ~FindAndReplaceInParagraph(doc.paragraphs[m.paragraph_index.val + 1],
                                          m.original_text.val, JinjaVar(m.label.val)).ok
      [] m.mapping_type = "table_cell" ->
            \/ m.table_index.val >= Len(doc.tables)
            \/ m.row_index.val >= Len(doc.tables[m.table_index.val + 1])
            \/ m.col_index.val
                  >= Len(doc.tables[m.table_index.val + 1][m.row_index.val + 1].cells)
            \/ ~FindAndReplaceInCell(
                    doc.tables[m.table_index.val + 1][m.row_index.val + 1]
                       .cells[m.col_index.val + 1],
                    m.original_text.val, JinjaVar(m.label.val)).ok
      [] m.mapping_type = "table_loop" ->
            \/ m.table_index.val >= Len(doc.tables)
            \/ m.data_row_index.val >= Len(doc.tables[m.table_index.val + 1])

\* the mappings of ms, applied in turn from doc, whose substitution fails on
\* the document as it is when their turn comes
RECURSIVE FailedSubstitutions(_, _)
FailedSubstitutions(doc, ms) ==
    IF ms = <<>> THEN {}
    ELSE (IF SubstitutionFails(doc, Head(ms)) THEN {Head(ms).id} ELSE {})
         \cup FailedSubstitutions(ApplyMapping(doc, Head(ms)), Tail(ms))

\* the stored mappings in the order apply_mappings_to_document applies them
InApplicationOrder(ms) ==
    SelectSeq(ms, LAMBDA m : m.mapping_type = "paragraph")
    \o SelectSeq(ms, LAMBDA m : m.mapping_type = "table_cell")
    \o SelectSeq(ms, LAMBDA m : m.mapping_type = "table_loop")

\* C16 as stated: publishing answers with plain success only when no mapping
\* failed to be located at materialization; a failed substitution is reported
C16_FailureSurfaced ==
    (scope = "designer" /\ op = "publish" /\ response.code = 200
        /\ response.detail = "Published") =>
        FailedSubstitutions(storage.files[RawPath(TemplateId)],
                            InApplicationOrder(template_mappings)) = {}


\* a stored mapping the semantic validation would have refused
SemanticallyInvalid(m) ==
    CASE m.mapping_type \in {"paragraph", "table_cell"} ->
            m.original_text = PyStrValue(<<>>)
      [] m.mapping_type = "table_loop" ->
            \/ ~Truthy(m.cell_labels)
            \/ \E i, j \in 1..Len(m.cell_labels.val) :
                  i # j /\ m.cell_labels.val[i].col_index = m.cell_labels.val[j].col_index
      [] OTHER -> FALSE

\* C17 as stated: a paragraph or table_cell mapping with an empty
\* original_text, or a table_loop mapping whose cell_labels is empty or names
\* a col_index twice, is rejected and never persisted
C17_SemanticValidation ==
    scope = "designer" =>
        \A i \in 1..Len(template_mappings) : ~SemanticallyInvalid(template_mappings[i])


\* a request body with an unrecognized mapping_type, or without one of the
\* fields its variant requires
StructurallyInvalid(mapping) ==
    LET mapping_type == IF "mapping_type" \in DOMAIN mapping
                        THEN mapping["mapping_type"] ELSE "paragraph"
        given        == DOMAIN mapping
    IN  \/ mapping_type \notin {"paragraph", "table_cell", "table_loop"}
        \/ /\ mapping_type = "paragraph"
           /\ ~({"paragraph_index", "original_text", "label"} \subseteq given)
        \/ /\ mapping_type = "table_cell"
           /\ ~({"table_index", "row_index", "col_index", "original_text", "label"}
                   \subseteq given)
        \/ /\ mapping_type = "table_loop"
           /\ ~({"table_index", "data_row_index", "loop_variable", "cell_labels"}
                   \subseteq given)

\* a create-mapping request with such a body is answered 400 and the stored
\* mappings are those of before
RejectedStep ==
    (op' = "create_template_mapping" /\ StructurallyInvalid(response'.request)) =>
        /\ response'.code = 400
        /\ response'.body.type = "NoneType"
        /\ template_mappings' = template_mappings
        /\ uuid_count' = uuid_count

\* C18: a create-mapping request with an unrecognized mapping_type, or
\* without a field its variant requires, is rejected, and the template's
\* stored mapping list is the same before and after the request
C18_StructuralValidation == [][RejectedStep]_vars

\* a table_loop body without loop_variable was refused on a draft template
\* that keeps its one mapping
C18_Witness ==
    /\ scope = "designer"
    /\ ~Published
    /\ op = "create_template_mapping"
    /\ response.request = MissingLoopVariableRequest
    /\ response.code = 400
    /\ response.detail = "loop_variable"
    /\ Len(template_mappings) = 1


\* the stored paragraph and table_cell mappings, in registry order
ScalarRows ==
    SelectSeq(template_mappings, LAMBDA m : m.mapping_type \in {"paragraph", "table_cell"})

\* the positions in ScalarRows where a label appears for the first time
FirstAppearances ==
    {i \in 1..Len(ScalarRows) : \A j \in 1..(i - 1) : ScalarRows[j].label # ScalarRows[i].label}

\* the fields of a schema that are not loop fields
ScalarFieldsOf(fields) == SelectSeq(fields, LAMBDA f : "sub_fields" \notin DOMAIN f)

\* the scalar fields are the first appearances, one by one and in their order
ScalarsDerived(fields) ==
    LET scalars == ScalarFieldsOf(fields)
    IN  /\ Len(scalars) = Cardinality(FirstAppearances)
        /\ Len(scalars) = Cardinality({ScalarRows[i].label : i \in 1..Len(ScalarRows)})
        /\ \A i \in FirstAppearances :
              LET k == Cardinality({j \in FirstAppearances : j <= i})
              IN  /\ scalars[k].name = ScalarRows[i].label
                  /\ scalars[k].type = ScalarRows[i].field_type
                  /\ scalars[k].required = ScalarRows[i].required
                  /\ scalars[k].original_text = ScalarRows[i].original_text

\* C19: get_template_schema emits exactly one field per distinct scalar label,
\* in registry order of first appearance, with the type, required flag and
\* original_text of the first mapping that carries the label
C19_ScalarSchema ==
    /\ (scope = "designer" /\ TemplateExists
            /\ GetTemplateSchema(TemplateId).type = "dict") =>
          ScalarsDerived(GetTemplateSchema(TemplateId).fields)
    /\ (scope = "designer" /\ op = "get_schema" /\ response.code = 200) =>
          /\ response.body = GetTemplateSchema(TemplateId)
          /\ ScalarsDerived(response.body.fields)

\* the schema was returned for a registry in which a label is carried by two
\* mappings that differ in type, required flag and original_text
C19_Witness ==
    /\ scope = "designer"
    /\ op = "get_schema"
    /\ response.code = 200
    /\ Len(ScalarRows) = 2
    /\ ScalarRows[1].label = ScalarRows[2].label
    /\ ScalarRows[1].field_type # ScalarRows[2].field_type
    /\ ScalarRows[1].required # ScalarRows[2].required
    /\ ScalarRows[1].original_text # ScalarRows[2].original_text
    /\ Len(response.body.fields) = 1


\* the stored table_loop mappings, in registry order, and the entries of
\* cell_labels each was created with
LoopRows == SelectSeq(template_mappings, LAMBDA m : m.mapping_type = "table_loop")

CellLabelsOf(m) == IF m.cell_labels.type = "list" THEN m.cell_labels.val ELSE <<>>

\* the loop fields of a schema
LoopFieldsOf(fields) == SelectSeq(fields, LAMBDA f : "sub_fields" \in DOMAIN f)

\* one array field per table_loop mapping, required, with the entries of
\* cell_labels as sub_fields in their order
LoopsDerived(fields) ==
    LET loops == LoopFieldsOf(fields)
    IN  /\ Len(loops) = Len(LoopRows)
        /\ \A k \in 1..Len(LoopRows) :
              LET cell_labels == CellLabelsOf(LoopRows[k])
              IN  /\ loops[k].name = LoopRows[k].loop_variable
                  /\ loops[k].type = PyStrValue(ArrayType)
                  /\ loops[k].required = PyBoolValue(TRUE)
                  /\ Len(loops[k].sub_fields) = Len(cell_labels)
                  /\ \A j \in 1..Len(cell_labels) :
                        loops[k].sub_fields[j].name = cell_labels[j].label

\* a render of the published template without the key of a loop variable is
\* refused as missing a required field, and no key that the body carries,
\* bound to an empty list or not, is reported missing
LoopKeysRequired ==
    (Published /\ op = "render") =>
        LET data == response.request.data
        IN  /\ (\E k \in 1..Len(LoopRows) : LoopRows[k].loop_variable.val \notin DOMAIN data)
                  => response.code = 400 /\ response.body.type = "ValueError"
            /\ response.body.type = "ValueError" => response.body.field.val \notin DOMAIN data
            /\ response.code = 500 => response.body.type # "TypeError"

\* C20 as stated: for each table_loop mapping get_template_schema emits one
\* array field named by loop_variable, always required, whose sub_fields list
\* the cell_labels entries in order; a render without the loop key is rejected
\* and one with the key bound to an empty list is accepted
C20_LoopSchema ==
    /\ (scope = "designer" /\ TemplateExists) =>
          /\ GetTemplateSchema(TemplateId).type = "dict"
          /\ LoopsDerived(GetTemplateSchema(TemplateId).fields)
    /\ LoopKeysRequired


\* the texts of the paragraphs of a document, those of its cells included
DocTexts(doc) ==
    {ParagraphText(doc.paragraphs[i]) : i \in 1..Len(doc.paragraphs)}
    \cup UNION {UNION {UNION {
            {ParagraphText(doc.tables[t][r].cells[c][k]) :
                k \in 1..Len(doc.tables[t][r].cells[c])} :
            c \in 1..Len(doc.tables[t][r].cells)} :
            r \in 1..Len(doc.tables[t])} :
            t \in 1..Len(doc.tables)}

\* the names of the scalar fields of a schema
ScalarNames(fields) ==
    {ScalarFieldsOf(fields)[k].name.val : k \in 1..Len(ScalarFieldsOf(fields))}

\* every "{{" of the document opens the placeholder of one of the names
PlaceholdersNamed(doc, names) ==
    \A text \in DocTexts(doc) : \A i \in 0..Len(text) :
        OccursAt(text, <<"{", "{">>, i) =>
            \E n \in names : OccursAt(text, JinjaVar(n), i)

\* every name has its placeholder somewhere in the document
NamesPlaced(doc, names) ==
    \A n \in names : \E text \in DocTexts(doc) : PyIn(JinjaVar(n), text)

\* C21 as stated: after publish, every {{label}} placeholder of the
\* materialized template names a scalar field of get_template_schema and
\* every scalar field of the schema has its placeholder in the template
C21_PlaceholderSchema ==
    (Published /\ GetTemplateSchema(TemplateId).type = "dict") =>
        LET names == ScalarNames(GetTemplateSchema(TemplateId).fields)
            doc   == storage.files[MaterializedPath]
        IN  PlaceholdersNamed(doc, names) /\ NamesPlaced(doc, names)


\* render_document called on a template that is not published, or whose
\* materialized file is not there, returns None and leaves the records and
\* the files as they are
RenderRefused ==
    (scope = "designer" /\ TemplateExists
        /\ (~Published \/ ~FileExists(storage.files, MaterializedPath))) =>
        \A data \in RenderRequests, conv \in ConverterOutcomes :
            LET call == RenderDocument(TemplateId, data, conv)
            IN  /\ call.result = None
                /\ call.rendered = rendered_documents
                /\ call.files = storage.files
                /\ call.io = {}

\* a render request that left a record or a file was made to a published
\* template and read its materialized file, on which every mapping of the
\* registry had been applied
ExpandedAfterSubstitution ==
    (scope = "designer" /\ op = "render") =>
        /\ (rendered_documents # <<>> \/ storage.io # {}) =>
              /\ Published
              /\ <<"read", MaterializedPath>> \in storage.io
              /\ storage.files[MaterializedPath]
                    = ApplyMappingsToDocument(storage.files[RawPath(TemplateId)],
                                              template_mappings)
        /\ ~Published =>
              /\ response.code = 400
              /\ rendered_documents = <<>>
              /\ DOMAIN storage.files = {RawPath(TemplateId)}

\* C23: loop expansion only runs on a document on which marker substitution
\* has completed: render_document expands rows only for a published template
\* whose materialized file exists, and otherwise returns without creating a
\* record or a file
C23_ProgramOrder == RenderRefused /\ ExpandedAfterSubstitution

\* a render request to a draft template that has a table_loop mapping was
\* refused and left nothing
C23_Witness ==
    /\ scope = "designer"
    /\ ~Published
    /\ op = "render"
    /\ response.code = 400
    /\ Len(LoopRows) >= 1
    /\ VarV \in DOMAIN response.request.data
    /\ response.request.data[VarV] # <<>>
    /\ rendered_documents = <<>>

\* the render data with loop variable var bound to the one item
OnlyItem(data, var, item) == [key \in DOMAIN data |-> IF key = var THEN <<item>> ELSE data[key]]

\* the nodes of the rows iteration k inserts are new and pairwise different,
\* and the row made for an item is the row that the same iteration makes
\* when that item is the only one
ClonesIndependent(k) ==
    LET before == RowsBefore(k)
        after  == RowsAfter(k)
        r      == StepRow(k)
        items  == StepItems(k)
        m      == LoopMappings[k]
    IN  /\ \A n \in 1..Len(items) :
              /\ \A j \in 1..Len(before) : after[r + n - 1].id # before[j].id
              /\ \A n2 \in 1..Len(items) :
                    n2 # n => after[r + n2 - 1].id # after[r + n - 1].id
              /\ after[r + n - 1].cells
                    = ExpandLoopMapping(expansion_steps[k],
                                        OnlyItem(render_data, m.loop_variable.val, items[n]),
                                        m).tables[StepTable(k)][r].cells
        /\ Cardinality({after[j].id : j \in 1..Len(after)}) = Len(after)

\* C24: each row inserted by expand_table_loops is a deep copy that shares no
\* node with the template row or another clone; filling the clone of item i
\* changes no text of the clone of item j nor of the template row, so each
\* clone shows only its own item's values
C24_CloneIndependence == Expanded => \A k \in ValidSteps : ClonesIndependent(k)

\* two different items filled two rows that differ, from a template row whose
\* markers both of them found
C24_Witness ==
    /\ Expanded
    /\ \E k \in ValidSteps :
          /\ Len(StepItems(k)) = 2
          /\ StepItems(k)[1] # StepItems(k)[2]
          /\ RowsAfter(k)[StepRow(k)].cells # RowsAfter(k)[StepRow(k) + 1].cells
          /\ RowsAfter(k)[StepRow(k)].cells # RowsBefore(k)[StepRow(k)].cells
          /\ RowsAfter(k)[StepRow(k) + 1].cells # RowsBefore(k)[StepRow(k)].cells
          /\ RowsAfter(k)[StepRow(k)].id # RowsAfter(k)[StepRow(k) + 1].id

\* the documents apply_mappings_to_document goes through: the source, then
\* the document after each mapping of ms
RECURSIVE AppliedDocs(_, _)
AppliedDocs(doc, ms) ==
    IF ms = <<>> THEN <<doc>>
    ELSE <<doc>> \o AppliedDocs(ApplyMapping(doc, Head(ms)), Tail(ms))

\* the paragraphs of a document: <<0, 0, 0, 0, i>> in the body,
\* <<1, t, r, c, k>> in a cell
ParagraphPlaces(doc) ==
    {<<0, 0, 0, 0, i>> : i \in 1..Len(doc.paragraphs)}
    \cup UNION {UNION {UNION {
            {<<1, t, r, c, k>> : k \in 1..Len(doc.tables[t][r].cells[c])} :
            c \in 1..Len(doc.tables[t][r].cells)} :
            r \in 1..Len(doc.tables[t])} :
            t \in 1..Len(doc.tables)}

PlaceText(doc, at) ==
    IF at[1] = 0 THEN ParagraphText(doc.paragraphs[at[5]])
    ELSE ParagraphText(doc.tables[at[2]][at[3]].cells[at[4]][at[5]])

\* the placeholders a mapping writes
TokensOf(m) ==
    IF m.mapping_type = "table_loop"
    THEN {Marker(m.loop_variable.val, m.cell_labels.val[j].label) :
            j \in 1..Len(m.cell_labels.val)}
    ELSE {JinjaVar(m.label.val)}

\* a placeholder that mapping i wrote into a paragraph is in that paragraph
\* after every later mapping
PlaceholdersKept(source, ms) ==
    LET docs == AppliedDocs(source, ms)
    IN  \A i \in 1..Len(ms) : \A token \in TokensOf(ms[i]) :
            \A at \in ParagraphPlaces(source) :
                (/\ ~PyIn(token, PlaceText(docs[i], at))
                 /\ PyIn(token, PlaceText(docs[i + 1], at))) =>
                    \A j \in (i + 1)..Len(ms) : PyIn(token, PlaceText(docs[j + 1], at))

\* C25 as stated: once apply_mappings_to_document has written a placeholder
\* or a loop marker into a paragraph or cell, the substitution of a later
\* mapping leaves it intact; no later original_text matches inside it
C25_PlaceholdersSurvive ==
    (scope = "document" /\ op # "init") =>
        PlaceholdersKept(source_doc, InApplicationOrder(mappings))

\* a status changes from draft to published only, in a publish that found a
\* mapping and wrote the materialized file
StatusStep ==
    \A id \in (DOMAIN templates) \cap (DOMAIN templates') :
        /\ templates[id].status = "published" => templates'[id].status = "published"
        /\ templates'[id].status # templates[id].status =>
            /\ templates[id].status = "draft"
            /\ templates'[id].status = "published"
            /\ op' = "publish"
            /\ template_mappings # <<>>
            /\ <<"write", PublishedPath(id)>> \in storage'.io
            /\ FileExists(storage'.files, PublishedPath(id))
            /\ templates'[id].template_path = PyPathValue(PublishedPath(id))

\* a template is draft or published, and a published one has its template_path
PublishedHasPath ==
    \A id \in DOMAIN templates :
        /\ templates[id].status \in {"draft", "published"}
        /\ templates[id].status = "published" => templates[id].template_path # None

\* C26: a status changes only from draft to published, only in
\* publish_template, and only when the template has a mapping and the
\* materialized file has been written; a published template never goes back
\* to draft and always has a template_path
C26_PublishedAbsorbing ==
    [](scope = "designer" => PublishedHasPath)
    /\ [][scope = "designer" => StatusStep]_vars

\* a published template after a later operation that is not a publish
C26_Witness ==
    /\ Published
    /\ op \in {"update_mapping", "remove_mapping", "get_schema", "render"}
    /\ GetTemplate(TemplateId).template_path = PyPathValue(PublishedPath(TemplateId))
    /\ template_mappings # <<>>

\* C27 as stated: every record render_document creates with status pending
\* is completed or docx_only when render_document has returned or raised
C27_RecordsFinal ==
    scope = "designer" =>
        \A i \in 1..Len(rendered_documents) :
            rendered_documents[i].status \in {"completed", "docx_only"}

\* loop mappings j and k, j applied first, have items and rows of the same
\* table of the materialized template
SameTableLoops(j, k) ==
    /\ j < k
    /\ StepTable(j) = StepTable(k)
    /\ StepTable(k) <= Len(template_doc.tables)
    /\ StepRow(j) <= Len(template_doc.tables[StepTable(j)])
    /\ StepRow(k) <= Len(template_doc.tables[StepTable(k)])
    /\ StepItems(j) # <<>>
    /\ StepItems(k) # <<>>

\* the row that received the markers of loop mapping k at publish time
MarkedRow(k) == template_doc.tables[StepTable(k)][StepRow(k)]

\* iteration k clones and removes the row that received its markers
ExpandsOwnRow(k) ==
    /\ ValidStep(k)
    /\ RowsBefore(k)[StepRow(k)].id = MarkedRow(k).id
    /\ \A n \in 1..Len(RowsAfter(k)) : RowsAfter(k)[n].id # MarkedRow(k).id

\* C28 as stated: when two table_loop mappings with items target the same
\* table, each expansion clones and removes the row in which its own markers
\* were placed at publish time, whatever the earlier expansion inserted above
C28_OwnRowExpanded ==
    Expanded =>
        \A j, k \in 1..Len(LoopMappings) :
            SameTableLoops(j, k) => ExpandsOwnRow(j) /\ ExpandsOwnRow(k)

\* the texts a w:t element goes through in the loop of lines 285-289: as
\* cloned, then after each entry of cell_labels
RECURSIVE FillTexts(_, _, _, _)
FillTexts(text, loop_var, cell_labels, item) ==
    IF cell_labels = <<>> THEN <<text>>
    ELSE <<text>> \o FillTexts(ReplaceMarker(text, loop_var, Head(cell_labels), item),
                               loop_var, Tail(cell_labels), item)

\* the value line 288 inserts for an entry of cell_labels
InsertedValue(cl, item) == PyStr(DictGet(item, cl.label, PyStrValue(<<>>)))

\* the value written for entry j is in the text after every later entry
ValuesKept(text, loop_var, cell_labels, item) ==
    LET texts == FillTexts(text, loop_var, cell_labels, item)
    IN  \A j \in 1..Len(cell_labels) :
            PyIn(Marker(loop_var, cell_labels[j].label), texts[j]) =>
                \A later \in j..Len(cell_labels) :
                    PyIn(InsertedValue(cell_labels[j], item), texts[later + 1])

\* C30 as stated: in a cloned row, a value written for one cell label's marker
\* is not changed by the replacement of another cell label's marker in the
\* same text leaf, for every order of cell_labels and every value
C30_ValuesVerbatim ==
    Expanded =>
        \A k \in ValidSteps :
            LET m == LoopMappings[k]
            IN  \A n \in 1..Len(StepItems(k)) :
                  \A leaf \in Leaves(RowsBefore(k)[StepRow(k)]) :
                    LET old == LeafText(RowsBefore(k)[StepRow(k)], leaf)
                    IN  old # <<>> =>
                          /\ LeafText(RowsAfter(k)[StepRow(k) + n - 1], leaf) =
                                FillTexts(old, m.loop_variable.val, m.cell_labels.val,
                                          CoerceItem(StepItems(k)[n]))[Len(m.cell_labels.val) + 1]
                          /\ ValuesKept(old, m.loop_variable.val, m.cell_labels.val,
                                        CoerceItem(StepItems(k)[n]))

----------------------------------------------------------------------------
(* Behaviours of materialization and expansion with loop variables and      *)
(* labels that contain underscores                                          *)

LabelBC == <<"b", "_", "_", "c">>
LabelAB == <<"a", "_", "_", "b">>
VarVB == <<"v", "_", "_", "b">>

NamedLabels == {LabelA, LabelC, LabelAB, LabelBC}
NamedVars == {VarV, VarVB}

\* one loop with two labelled columns on row 1 of table 0, or two loops with
\* one labelled column each on rows 1 and 2; no original_text, so the marker
\* is written over the cell
NamedMappingLists ==
    {<<LoopMapping(var, 0, 1, <<CellLabel(0, l1, <<>>), CellLabel(1, l2, <<>>)>>)>> :
        <<var, l1, l2>> \in NamedVars \X NamedLabels \X NamedLabels}
    \cup {<<LoopMapping(v1, 0, 1, <<CellLabel(0, l1, <<>>)>>),
            LoopMapping(v2, 0, 2, <<CellLabel(0, l2, <<>>)>>)>> :
        <<v1, l1, v2, l2>> \in NamedVars \X NamedLabels \X NamedVars \X NamedLabels}

\* the value of field label of the items of loop variable var
NamedValue(var, label) == PyStrValue(<<"#">> \o var \o <<".">> \o label)

\* an item with every field
NamedItem(var) == PyDict([l \in NamedLabels |-> NamedValue(var, l)])

\* render data: every loop variable bound to n items
NamedRenderData(n) == [var \in NamedVars |-> [k \in 1..n |-> NamedItem(var)]]

InitMarker ==
    /\ scope = "marker"
    /\ update_call = None
    /\ op = "init"
    /\ paragraph = <<>>
    /\ paragraph_before = <<>>
    /\ cell = <<>>
    /\ cell_before = <<>>
    /\ target_text = <<>>
    /\ replacement = <<>>
    /\ result = FALSE
    /\ source_doc = SourceDoc(1, FALSE)
    /\ mappings = <<>>
    /\ template_doc = None
    /\ render_data = <<>>
    /\ expansion_steps = <<>>
    /\ NoService

\* apply_mappings_to_document(source_path, mappings, output_path)
MaterializeNamedLoops ==
    /\ scope = "marker"
    /\ op = "init"
    /\ \E ms \in NamedMappingLists :
        /\ mappings' = ms
        /\ template_doc' = ApplyMappingsToDocument(source_doc, ms)
    /\ op' = "apply_mappings_to_document"
    /\ result' = TRUE
    /\ UNCHANGED <<scope, update_call, paragraph, paragraph_before, cell, cell_before,
                   target_text, replacement, source_doc, render_data, expansion_steps,
                   svcVars>>

\* expand_table_loops(template_path, data, mappings, output_path)
ExpandNamedLoops ==
    /\ scope = "marker"
    /\ op = "apply_mappings_to_document"
    /\ \E n \in 1..MaxItems :
        /\ render_data' = NamedRenderData(n)
        /\ expansion_steps' = ExpansionSteps(template_doc, NamedRenderData(n),
                                             LoopMappingsOf(mappings))
    /\ op' = "expand_table_loops"
    /\ UNCHANGED <<scope, update_call, callVars, source_doc, mappings, template_doc, svcVars>>

NextMarker == MaterializeNamedLoops \/ ExpandNamedLoops

SpecMarker == InitMarker /\ [][NextMarker]_vars

\* the (loop_variable, label) pairs of the loop mappings of a template
FieldPairs(ms) ==
    UNION {{<<ms[k].loop_variable.val, ms[k].cell_labels.val[j].label>> :
                j \in 1..Len(ms[k].cell_labels.val)} :
           k \in {i \in 1..Len(ms) : ms[i].mapping_type = "table_loop"}}

\* two pairs have two tokens
TokensDiffer(ms) ==
    \A f, g \in FieldPairs(ms) : f # g => Marker(f[1], f[2]) # Marker(g[1], g[2])

\* replacing every occurrence of the token of one pair leaves the token of
\* another pair as it is
TokensApart(ms) ==
    \A f, g \in FieldPairs(ms) :
        Marker(f[1], f[2]) # Marker(g[1], g[2]) =>
            PyReplace(Marker(g[1], g[2]), Marker(f[1], f[2]), <<>>) = Marker(g[1], g[2])

\* C22 as stated: the marker token of one (loop_variable, label) pair differs
\* from the token of every other pair of the template, so the exhaustive
\* replacement of one field's marker replaces only that field's marker
C22_MarkerUnique ==
    (scope = "marker" /\ op # "init") => TokensDiffer(mappings) /\ TokensApart(mappings)

----------------------------------------------------------------------------
(* Behaviours in which update_mapping runs together with other operations   *)
(* on the same template: each function of db_repository.py is one           *)
(* transaction (get_db_session commits when its block ends), and another    *)
(* operation may run between two of them                                    *)

\* the registry of the draft template when the behaviour starts
InterleavedRegistries ==
    {<<DbMappingRow(1, ParagraphRequest)>>,
     <<DbMappingRow(1, ParagraphRequest), DbMappingRow(2, CellRequest)>>,
     <<DbMappingRow(1, LoopRequest), DbMappingRow(2, CellRequest)>>}

InitInterleaved ==
    /\ scope = "interleaved"
    /\ update_call = None
    /\ op = "init"
    /\ paragraph = <<>>
    /\ paragraph_before = <<>>
    /\ cell = <<>>
    /\ cell_before = <<>>
    /\ target_text = <<>>
    /\ replacement = <<>>
    /\ result = FALSE
    /\ NoDocument
    /\ templates = (TemplateId :>
                        [type |-> "dict", id |-> TemplateId, status |-> "draft",
                         file_path |-> PyPathValue(RawPath(TemplateId)),
                         template_path |-> None])
    /\ template_mappings \in InterleavedRegistries
    /\ storage = [files |-> WriteFile(<<>>, RawPath(TemplateId), UploadedDoc), io |-> {}]
    /\ rendered_documents = <<>>
    /\ response = None
    /\ uuid_count = Len(template_mappings)

InterleavedFrame == UNCHANGED <<scope, callVars, docVars, rendered_documents>>

\* update_mapping lines 111-118: the mapping and the template are read, the
\* status is tested and the data are merged
BeginUpdateMapping ==
    /\ scope = "interleaved"
    /\ update_call = None
    /\ uuid_count < MaxUuids
    /\ \E mapping_id \in MappingIds, data \in UpdateRequests :
        LET at == MappingPositions(template_mappings, mapping_id)
        IN  IF at = {} \/ IsPublished(GetTemplate(TemplateId))
            THEN /\ response' = Response([mapping_id |-> mapping_id], 404,
                                         "Mapping not found or template published", None)
                 /\ UNCHANGED update_call
            ELSE /\ update_call' = [mapping_id |-> mapping_id,
                                    merged     |-> Merged(template_mappings[Lowest(at)], data),
                                    line       |-> 119]
                 /\ UNCHANGED response
    /\ op' = "update_mapping"
    /\ UNCHANGED <<templates, template_mappings, storage, uuid_count>>
    /\ InterleavedFrame

\* update_mapping line 119: db_delete_mapping(template_id, mapping_id)
DeleteOldMapping ==
    /\ scope = "interleaved"
    /\ update_call # None
    /\ update_call.line = 119
    /\ template_mappings' = WithoutMapping(template_mappings, update_call.mapping_id)
    /\ update_call' = [update_call EXCEPT !.line = 120]
    /\ op' = "update_mapping"
    /\ UNCHANGED <<templates, storage, response, uuid_count>>
    /\ InterleavedFrame

\* update_mapping line 120: return db_create_mapping(template_id, merged)
CreateMergedMapping ==
    /\ scope = "interleaved"
    /\ update_call # None
    /\ update_call.line = 120
    /\ LET row == DbMappingRow(uuid_count + 1, update_call.merged)
       IN  /\ template_mappings' = Append(template_mappings, row)
           /\ response' = Response([mapping_id |-> update_call.mapping_id], 200, "Updated",
                                   PyDict(row))
    /\ uuid_count' = uuid_count + 1
    /\ update_call' = None
    /\ op' = "update_mapping"
    /\ UNCHANGED <<templates, storage>>
    /\ InterleavedFrame

\* list_mappings(template_id) of another request
ListMappings ==
    /\ scope = "interleaved"
    /\ response' = Response(None, 200, "mappings", PyList(template_mappings))
    /\ op' = "list_mappings"
    /\ UNCHANGED <<templates, template_mappings, storage, uuid_count, update_call>>
    /\ InterleavedFrame

\* publish_template(template_id) of another request
PublishInterleaved ==
    /\ scope = "interleaved"
    /\ ~IsPublished(GetTemplate(TemplateId))
    /\ LET published == PublishTemplate(TemplateId)
       IN  /\ response' = IF published.result.type = "dict"
                          THEN Response(None, 200, "Published", published.result)
                          ELSE Response(None, 500, "Publish failed", published.result)
           /\ storage' = [files |-> published.files, io |-> published.io]
           /\ templates' = published.templates
    /\ op' = "publish_template"
    /\ UNCHANGED <<template_mappings, uuid_count, update_call>>
    /\ InterleavedFrame

\* get_template_schema(template_id) of another request
SchemaInterleaved ==
    /\ scope = "interleaved"
    /\ response' = Response(None, 200, "schema", GetTemplateSchema(TemplateId))
    /\ op' = "get_template_schema"
    /\ UNCHANGED <<templates, template_mappings, storage, uuid_count, update_call>>
    /\ InterleavedFrame

NextInterleaved ==
    \/ BeginUpdateMapping
    \/ DeleteOldMapping
    \/ CreateMergedMapping
    \/ ListMappings
    \/ PublishInterleaved
    \/ SchemaInterleaved

SpecInterleaved == InitInterleaved /\ [][NextInterleaved]_vars

\* the mapping of the update_mapping call in progress is in the registry
MappingBeingUpdatedListed ==
    update_call # None =>
        MappingPositions(template_mappings, update_call.mapping_id) # {}

\* another operation reads a registry that holds the mapping being updated
ObservesMapping ==
    op' \in {"list_mappings", "publish_template", "get_template_schema"} =>
        MappingBeingUpdatedListed

\* the mapping set of a published template is left as it is
PublishedSetKept ==
    IsPublished(GetTemplate(TemplateId)) => template_mappings' = template_mappings

\* C29 as stated: when update_mapping runs interleaved with list_mappings,
\* publish_template or get_template_schema on the same template, no other
\* operation observes the registry without the mapping being updated, and
\* the mapping set is not modified after the status became published
C29_UpdateAtomic ==
    [][scope = "interleaved" => ObservesMapping /\ PublishedSetKept]_vars


====
